---- MODULE Spec2Model ----
(***************************************************************************)
(* Trade-Moon: signal intake (webhook, mailbox) and order execution core.  *)
(*                                                                         *)
(* Text is modelled as sequences of one-character strings so that          *)
(* str.lower(), str.strip() and float() are computed, not assumed.         *)
(* JSON values are tagged records: [t |-> "str", s |-> <<chars>>],         *)
(* [t |-> "num", v |-> float], [t |-> "null"]; a JSON object is a function *)
(* from the keys it holds to values.                                       *)
(***************************************************************************)
EXTENDS Integers, Sequences, FiniteSets, TLC

VARIABLES
    WEBHOOK_PIN,    \* config.WEBHOOK_PIN (a character sequence, <<>> when unset)
    sh_exchanges,   \* signal_handler.exchanges: names of the configured clients
    request,        \* the HTTP request delivered to the webhook workers
    wpc,            \* per webhook worker: "idle" | "done"
    response,       \* per webhook worker: the HTTP response it returned
    signal,         \* per webhook worker: what process_signal did for it
    bl_exchanges,   \* bot_logic.exchanges: names of the configured clients
    account,        \* per exchange: the positions the exchange reports (external)
    frame,          \* per dashboard worker: the bot_logic call in progress
    mailbox,        \* the IMAP INBOX: sequence of messages (external)
    reader,         \* the mailbox polling loop (run_email_reader / check_inbox)
    startup         \* the module-level initialisation of the two registries

vars == <<WEBHOOK_PIN, sh_exchanges, request, wpc, response, signal,
          bl_exchanges, account, frame, mailbox, reader, startup>>

webVars  == <<request, wpc, response, signal>>
dashVars == <<bl_exchanges, account, frame>>
mailVars == <<mailbox, reader>>

----------------------------------------------------------------------------
(* Text *)

UpperAlpha == <<"A","B","C","D","E","F","G","H","I","J","K","L","M",
                "N","O","P","Q","R","S","T","U","V","W","X","Y","Z">>
LowerAlpha == <<"a","b","c","d","e","f","g","h","i","j","k","l","m",
                "n","o","p","q","r","s","t","u","v","w","x","y","z">>
Digits     == <<"0","1","2","3","4","5","6","7","8","9">>

IndexIn(c, tuple) ==
    IF \E i \in DOMAIN tuple : tuple[i] = c
    THEN CHOOSE i \in DOMAIN tuple : tuple[i] = c
    ELSE 0

\* str.lower(), one character: the table of the letters that change
LowerTable ==
    [c \in {UpperAlpha[i] : i \in DOMAIN UpperAlpha} |-> LowerAlpha[IndexIn(c, UpperAlpha)]]

LowerChar(c) == IF c \in DOMAIN LowerTable THEN LowerTable[c] ELSE c

\* a variant that leaves the letter case as it is
Lower_AsIs(s) == s

\* str.lower()
Lower(s) == [i \in DOMAIN s |-> LowerChar(s[i])]

IsSpace(c) == c \in {" ", "\t", "\n", "\r"}

RECURSIVE LStrip(_)
LStrip(s) == IF s # <<>> /\ IsSpace(Head(s)) THEN LStrip(Tail(s)) ELSE s

RECURSIVE RStrip(_)
RStrip(s) ==
    IF s # <<>> /\ IsSpace(s[Len(s)]) THEN RStrip(SubSeq(s, 1, Len(s) - 1)) ELSE s

\* str.strip()
Strip(s) == RStrip(LStrip(s))

\* str.startswith(prefix)
StartsWith(s, prefix) ==
    /\ Len(s) >= Len(prefix)
    /\ SubSeq(s, 1, Len(prefix)) = prefix

----------------------------------------------------------------------------
(* float(): numbers are [k |-> "fin", m |-> mantissa, e |-> digits after   *)
(* the point], [k |-> "inf", neg |-> BOOLEAN] or [k |-> "nan"].            *)

Fin(m, e) == [k |-> "fin", m |-> m, e |-> e]
NaN       == [k |-> "nan"]
Inf(neg)  == [k |-> "inf", neg |-> neg]

AllDigits(s) == \A i \in DOMAIN s : IndexIn(s[i], Digits) # 0

RECURSIVE DigitsValue(_)
DigitsValue(s) ==
    IF s = <<>> THEN 0
    ELSE 10 * DigitsValue(SubSeq(s, 1, Len(s) - 1)) + (IndexIn(s[Len(s)], Digits) - 1)

DotAt(s) == IndexIn(".", s)

\* the unsigned decimal part: digits, at most one point, at least one digit
ParseUnsigned(s) ==
    LET d    == DotAt(s)
        ip   == IF d = 0 THEN s ELSE SubSeq(s, 1, d - 1)
        fp   == IF d = 0 THEN <<>> ELSE SubSeq(s, d + 1, Len(s))
    IN  IF AllDigits(ip) /\ AllDigits(fp) /\ Len(ip) + Len(fp) > 0
        THEN [ok |-> TRUE, v |-> Fin(DigitsValue(ip \o fp), Len(fp))]
        ELSE [ok |-> FALSE]

\* float(str): surrounding whitespace stripped, optional sign, then a decimal
\* number, "inf", "infinity" or "nan" in any letter case.  Exponents and digit
\* separators are outside the modelled inputs.
ParseFloat(s) ==
    LET t    == Strip(s)
        sgn  == t # <<>> /\ Head(t) \in {"+", "-"}
        neg  == t # <<>> /\ Head(t) = "-"
        body == IF sgn THEN Tail(t) ELSE t
        low  == Lower(body)
        u    == ParseUnsigned(body)
    IN  IF low = <<"n","a","n">> THEN [ok |-> TRUE, v |-> NaN]
        ELSE IF low \in {<<"i","n","f">>, <<"i","n","f","i","n","i","t","y">>}
             THEN [ok |-> TRUE, v |-> Inf(neg)]
        ELSE IF u.ok
             THEN [ok |-> TRUE, v |-> Fin(IF neg THEN 0 - u.v.m ELSE u.v.m, u.v.e)]
        ELSE [ok |-> FALSE]

----------------------------------------------------------------------------
(* JSON values and payloads *)

Str(s)  == [t |-> "str", s |-> s]
Num(v)  == [t |-> "num", v |-> v]
Null    == [t |-> "null"]
Absent  == [t |-> "absent"]     \* marks a key the object does not hold

Keys == {"EXCHANGE", "SYMBOL", "SIDE", "ORDER_TYPE", "QUANTITY", "PRICE", "PIN"}

\* the JSON object holding exactly the keys whose value is not Absent
MkObj(ex, sym, side, typ, qty, price, pin) ==
    LET all == [k \in Keys |->
                  CASE k = "EXCHANGE"   -> ex
                    [] k = "SYMBOL"     -> sym
                    [] k = "SIDE"       -> side
                    [] k = "ORDER_TYPE" -> typ
                    [] k = "QUANTITY"   -> qty
                    [] k = "PRICE"      -> price
                    [] k = "PIN"        -> pin]
    IN  [k \in {x \in Keys : all[x] # Absent} |-> all[k]]

\* dict.get(key, default)
Get(data, key, default) == IF key \in DOMAIN data THEN data[key] ELSE default

Obj(o)  == [t |-> "obj", o |-> o]      \* a JSON object
Arr     == [t |-> "arr"]               \* a non-empty JSON array (holding no key name)

----------------------------------------------------------------------------
(* signal_handler.py *)

bybit   == <<"b","y","b","i","t">>
binance == <<"b","i","n","a","n","c","e">>
kraken  == <<"k","r","a","k","e","n">>

ExchangeNames == {bybit, binance}      \* the clients the code can configure

buy    == <<"b","u","y">>
sell   == <<"s","e","l","l">>
market == <<"m","a","r","k","e","t">>
limit  == <<"l","i","m","i","t">>

required_fields == <<"EXCHANGE", "SYMBOL", "SIDE", "ORDER_TYPE", "QUANTITY">>

\* `field not in data`, for a dict and for a list
NotIn(field, data) ==
    IF data.t = "obj" THEN field \notin DOMAIN data.o ELSE TRUE

FirstMissing_ExchangeOnly(data) == IF NotIn("EXCHANGE", data) THEN 1 ELSE 0

\* index of the first required field the payload lacks, 0 when none is missing
FirstMissing(data) ==
    IF \E i \in DOMAIN required_fields : NotIn(required_fields[i], data)
    THEN CHOOSE i \in DOMAIN required_fields :
            /\ NotIn(required_fields[i], data)
            /\ \A j \in 1..(i - 1) : ~NotIn(required_fields[j], data)
    ELSE 0

\* float(x): [ok, v] on success, [ok |-> FALSE, exc] otherwise
ToFloat(x) ==
    CASE x.t = "str" -> LET p == ParseFloat(x.s)
                        IN  IF p.ok THEN p ELSE [ok |-> FALSE, exc |-> "ValueError"]
      [] x.t = "num" -> [ok |-> TRUE, v |-> x.v]
      [] OTHER       -> [ok |-> FALSE, exc |-> "TypeError"]

\* what one run of process_signal leaves behind: the message it logged (with the
\* field or the exception it names) and the exchange calls it made
Outcome(msg, detail, calls) == [msg |-> msg, detail |-> detail, calls |-> calls]

NoCalls == <<>>

\* the price argument of a call that passes none
NoPrice == [k |-> "none"]

\* exchange.create_order(symbol, order_type, side, quantity[, price])
CreateOrderCall(ex, symbol, order_type, side, quantity, price) ==
    [ex |-> ex, op |-> "create_order", symbol |-> symbol, type |-> order_type,
     side |-> side, amount |-> quantity, price |-> price]

\* a variant without the outer except clause: the exception leaves
\* process_signal
Caught_Propagates(exc, calls) == Outcome("raised", exc, calls)

\* lines 129-130: except Exception, the exception is logged and process_signal
\* returns
Caught(exc, calls) == Outcome("exception", exc, calls)

\* the outcome of an exchange call the code does not guard against:
\* `accept` FALSE is the exchange (or the transport) raising
Placed(c, accept) ==
    IF accept THEN Outcome("placed", "", <<c>>)
              ELSE Caught("create_order", <<c>>)

PlaceSignalOrder_NoPrice(registry, exchange_name, symbol, side, order_type, quantity, price, accept) ==
    IF exchange_name \notin registry
    THEN Outcome("exchange_unavailable", "", NoCalls)
    ELSE IF order_type \in {limit, market}
         THEN Placed(CreateOrderCall(exchange_name, symbol, order_type, side,
                                     quantity, NoPrice), accept)
    ELSE Outcome("unsupported_order_type", "", NoCalls)

\* a variant that places every order that is not a limit order as a market order
PlaceSignalOrder_ElseMarket(registry, exchange_name, symbol, side, order_type, quantity, price, accept) ==
    IF exchange_name \notin registry
    THEN Outcome("exchange_unavailable", "", NoCalls)
    ELSE IF order_type = limit
         THEN Placed(CreateOrderCall(exchange_name, symbol, order_type, side,
                                     quantity, price), accept)
    ELSE Placed(CreateOrderCall(exchange_name, symbol, order_type, side,
                                quantity, NoPrice), accept)

\* a variant that places the order without looking the exchange up
PlaceSignalOrder_NoLookup(registry, exchange_name, symbol, side, order_type, quantity, price, accept) ==
    IF order_type = limit
    THEN Placed(CreateOrderCall(exchange_name, symbol, order_type, side,
                                quantity, price), accept)
    ELSE IF order_type = market
         THEN Placed(CreateOrderCall(exchange_name, symbol, order_type, side,
                                     quantity, NoPrice), accept)
    ELSE Outcome("unsupported_order_type", "", NoCalls)

\* lines 113-128: registry lookup and order placement
PlaceSignalOrder(registry, exchange_name, symbol, side, order_type, quantity, price, accept) ==
    IF exchange_name \notin registry
    THEN Outcome("exchange_unavailable", "", NoCalls)
    ELSE IF order_type = limit
         THEN Placed(CreateOrderCall(exchange_name, symbol, order_type, side,
                                     quantity, price), accept)
    ELSE IF order_type = market
         THEN Placed(CreateOrderCall(exchange_name, symbol, order_type, side,
                                     quantity, NoPrice), accept)
    ELSE Outcome("unsupported_order_type", "", NoCalls)

\* a variant that looks the exchange up before it checks the price
CheckPrice_AfterLookup(o, registry, exchange_name, symbol, side, order_type, quantity, accept) ==
    IF exchange_name \notin registry
    THEN Outcome("exchange_unavailable", "", NoCalls)
    ELSE IF order_type = limit
    THEN IF "PRICE" \notin DOMAIN o
         THEN Outcome("missing_price", "PRICE", NoCalls)
         ELSE LET p == ToFloat(o["PRICE"])
              IN  IF p.ok
                  THEN PlaceSignalOrder(registry, exchange_name, symbol, side,
                                        order_type, quantity, p.v, accept)
                  ELSE IF p.exc = "ValueError"
                       THEN Outcome("invalid_price", "PRICE", NoCalls)
                       ELSE Caught(p.exc, NoCalls)
    ELSE PlaceSignalOrder(registry, exchange_name, symbol, side,
                          order_type, quantity, NoPrice, accept)

\* lines 102-111: the price of a limit order
CheckPrice(o, registry, exchange_name, symbol, side, order_type, quantity, accept) ==
    IF order_type = limit
    THEN IF "PRICE" \notin DOMAIN o
         THEN Outcome("missing_price", "PRICE", NoCalls)
         ELSE LET p == ToFloat(o["PRICE"])
              IN  IF p.ok
                  THEN PlaceSignalOrder(registry, exchange_name, symbol, side,
                                        order_type, quantity, p.v, accept)
                  ELSE IF p.exc = "ValueError"
                       THEN Outcome("invalid_price", "PRICE", NoCalls)
                       ELSE Caught(p.exc, NoCalls)
    ELSE PlaceSignalOrder(registry, exchange_name, symbol, side,
                          order_type, quantity, NoPrice, accept)

\* a variant that only requires the side not to be empty
ValidSide_NonEmpty(side) == side # <<>>

\* line 98: side in ["buy", "sell"]
ValidSide(side) == side \in {buy, sell}

\* process_signal(data) against the registry signal_handler.exchanges
process_signal(data, registry, accept) ==
    IF data.t \notin {"obj", "arr"}
    THEN Caught("TypeError", NoCalls)                     \* `field not in 5`
    ELSE IF FirstMissing(data) # 0
    THEN Outcome("missing_field", required_fields[FirstMissing(data)], NoCalls)
    ELSE LET o == data.o IN
         IF \E i \in DOMAIN required_fields : required_fields[i] \notin DOMAIN o
         THEN Caught("KeyError", NoCalls)                      \* data[field] of a missing key
         ELSE
         IF \E k \in {"EXCHANGE", "SIDE", "ORDER_TYPE"} : o[k].t # "str"
         THEN Caught("AttributeError", NoCalls)                 \* .lower() of a non-string
         ELSE LET exchange_name == Lower(o["EXCHANGE"].s)
                  symbol        == o["SYMBOL"]
                  side          == Lower(o["SIDE"].s)
                  order_type    == Lower(o["ORDER_TYPE"].s)
                  q             == ToFloat(o["QUANTITY"])
              IN  IF ~q.ok
                  THEN IF q.exc = "ValueError"
                       THEN Outcome("invalid_quantity", "QUANTITY", NoCalls)
                       ELSE Caught(q.exc, NoCalls)
                  ELSE IF ~ValidSide(side)
                  THEN Outcome("invalid_side", "SIDE", NoCalls)
                  ELSE CheckPrice(o, registry, exchange_name, symbol, side,
                                  order_type, q.v, accept)

----------------------------------------------------------------------------
(* webhook_receiver.py *)

NumWorkers == 2                 \* gunicorn -w 2
Workers    == 1..NumWorkers

\* process_signal was not reached
NotCalled == Outcome("not_called", "", NoCalls)

Response(code, body) == [code |-> code, body |-> body]
NoResponse == Response(0, "")

\* An HTTP request is [kind, json]:
\*   "json"      the body is a JSON document, `json` its value
\*   "malformed" the body is not JSON
\*   "none"      there is no JSON body (empty body, or no JSON content type)
NoRequest == [kind |-> "absent", json |-> Null]
Req(kind, json) == [kind |-> kind, json |-> json]

\* request.json (Flask): the parsed document; None for a body that is the
\* document `null`; for a body that is not JSON werkzeug raises BadRequest (an
\* HTTPException, never json.JSONDecodeError); with no JSON body it returns
\* None or raises, depending on the Flask release and the content type
\* (`raises` chooses).
request_json(req, raises) ==
    CASE req.kind = "json"      -> [ok |-> TRUE, v |-> req.json]
      [] req.kind = "malformed" -> [ok |-> FALSE, exc |-> "BadRequest"]
      [] OTHER                  -> IF raises THEN [ok |-> FALSE, exc |-> "BadRequest"]
                                             ELSE [ok |-> TRUE, v |-> Null]

\* the except clauses of trade_signal, lines 77-82
HandlerExcept(exc) ==
    IF exc = "JSONDecodeError" THEN Response(400, "Malformed JSON")
                               ELSE Response(500, exc)

PinRejected_PresentOnly(o, pin) ==
    pin # <<>> /\ "PIN" \in DOMAIN o /\ o["PIN"] # Str(pin)

\* lines 66-67: incoming_pin = data.get("PIN", ""); the gate rejects when a PIN
\* is configured and the incoming one is not that very string
PinRejected(o, pin) ==
    LET incoming_pin == Get(o, "PIN", Str(<<>>))
    IN  pin # <<>> /\ incoming_pin # Str(pin)

Acknowledge_Outcome(sig) ==
    IF sig.msg = "placed" THEN Response(200, "ok") ELSE Response(500, sig.detail)

\* line 76: the response after process_signal has returned
Acknowledge(sig) == Response(200, "ok")

\* the whole handler: [resp, sig]
HandleWebhook(req, pin, registry, raises, accept) ==
    LET j == request_json(req, raises) IN
    IF ~j.ok THEN [resp |-> HandlerExcept(j.exc), sig |-> NotCalled]
    ELSE IF j.v = Null
         THEN [resp |-> Response(400, "No JSON data"), sig |-> NotCalled]
    ELSE IF j.v.t # "obj"           \* data.get on a list, a string, a number
         THEN [resp |-> HandlerExcept("AttributeError"), sig |-> NotCalled]
    ELSE IF PinRejected(j.v.o, pin)
         THEN [resp |-> Response(403, "Invalid pin"), sig |-> NotCalled]
    ELSE LET sig == process_signal(j.v, registry, accept)
         IN  [resp |-> Acknowledge(sig), sig |-> sig]

\* the values a client may put under each key
BTCUSDT == <<"B","T","C","/","U","S","D","T">>
pin1234 == <<"1","2","3","4">>

ExVals    == {Absent, Str(binance), Str(<<"B","y","b","i","t">>), Str(kraken), Null}
SymVals   == {Absent, Str(BTCUSDT)}
SideVals  == {Absent, Str(buy), Str(<<"S","E","L","L">>), Str(<<"h","o","l","d">>)}
TypeVals  == {Absent, Str(market), Str(<<"L","i","m","i","t">>), Str(<<"s","t","o","p">>)}
QtyVals   == {Absent, Str(<<"0",".","0","1">>), Num(Fin(1, 0)), Str(<<"a","b","c">>),
              Str(<<"-","1">>), Str(<<"0">>)}
PriceVals == {Absent, Str(<<"3","0","0","0">>), Str(<<"a","b","c">>)}
PinVals   == {Absent, Str(pin1234), Str(<<"0","0","0","0">>)}

Payloads ==
    { MkObj(ex, sym, side, typ, qty, price, pin) :
        ex \in ExVals, sym \in SymVals, side \in SideVals, typ \in TypeVals,
        qty \in QtyVals, price \in PriceVals, pin \in PinVals }

Requests ==
    {Req("json", Obj(o)) : o \in Payloads}
      \cup {Req("json", Arr), Req("json", Null), Req("malformed", Null), Req("none", Null)}

Configs == {<<>>, pin1234}

\* a client sends a request; both workers may be handed a request with this body
Arrive ==
    /\ request = NoRequest
    /\ request' \in Requests
    /\ UNCHANGED <<startup, WEBHOOK_PIN, sh_exchanges, wpc, response, signal, dashVars, mailVars>>

\* POST /webhook handled by worker w
trade_signal(w) ==
    /\ request # NoRequest
    /\ wpc[w] = "idle"
    /\ \E raises \in BOOLEAN, accept \in BOOLEAN :
          LET r == HandleWebhook(request, WEBHOOK_PIN, sh_exchanges, raises, accept)
          IN  /\ response' = [response EXCEPT ![w] = r.resp]
              /\ signal'   = [signal EXCEPT ![w] = r.sig]
    /\ wpc' = [wpc EXCEPT ![w] = "done"]
    /\ UNCHANGED <<startup, WEBHOOK_PIN, sh_exchanges, request, dashVars, mailVars>>

----------------------------------------------------------------------------
(* bot_logic.py *)

\* dict order of bot_logic.exchanges: bybit is inserted before binance
InitOrder == <<bybit, binance>>
RegistrySeq(registry) == SelectSeq(InitOrder, LAMBDA e : e \in registry)

\* A position as the exchange reports it (ccxt):
\*   [symbol, side, contracts, notional, marginRatio, unrealizedPnl]
\* (an optional number is <<>> for None and <<v>> for the value v)
RawPos(symbol, side, contracts) ==
    [symbol |-> symbol, side |-> side, contracts |-> contracts,
     notional |-> 0, marginRatio |-> <<>>, unrealizedPnl |-> 0]

\* the side of a raw position that holds no 'side' key
MissingSide == ""

\* line 126: pos.get('side', 'N/A')
SideOf(pos) == IF pos.side = MissingSide THEN "N/A" ELSE pos.side

\* lines 124-135: the dictionary get_positions builds from a raw position
Normalized(pos, exchange_name) ==
    [symbol |-> pos.symbol, side |-> SideOf(pos), contracts |-> pos.contracts,
     notional |-> pos.notional, margin_ratio |-> pos.marginRatio,
     unrealized_pnl |-> pos.unrealizedPnl, exchange |-> exchange_name]

IsOpen_AnyContracts(pos) == pos.contracts >= 0

\* line 123: only positions with contracts > 0 are kept
IsOpen(pos) == pos.contracts > 0

\* lines 121-135: the open positions of one exchange, in the order reported
OpenPositions(raw, exchange_name) ==
    LET kept == SelectSeq(raw, IsOpen)
    IN  [i \in DOMAIN kept |-> Normalized(kept[i], exchange_name)]

\* calls made to an exchange client
MarketOrderCall(ex, symbol, side, amount) ==
    [ex |-> ex, op |-> "create_market_order", symbol |-> symbol, side |-> side,
     amount |-> amount]

\* result dictionaries
Success(order)  == [status |-> "success", message |-> "", order |-> order]
Error(message)  == [status |-> "error", message |-> message, order |-> [op |-> "none"]]
NoResult        == [status |-> "none", message |-> "", order |-> [op |-> "none"]]

NoTarget == [ex |-> <<>>, symbol |-> ""]
NoMatch  == [symbol |-> ""]

\* A worker's call into bot_logic.  close_all_positions runs close_position, and
\* close_position runs get_positions; the frame holds the locals of all three.
\*   op       the function the dashboard route called
\*   pc       the exchange call the worker is about to make, or "done"
\*   todo     get_positions: exchanges still to be fetched
\*   data     get_positions: positions_data
\*   target   close_position: (exchange_name, symbol)
\*   match    close_position: the position found for the symbol
\*   snapshot close_all_positions: all_positions, flattened in iteration order
\*   queue    close_all_positions: snapshot positions still to be closed
\*   results  close_all_positions: the results dictionary
\*   closes   the close_position calls made so far, as (exchange_name, symbol)
\*   fetched  get_positions: for each exchange fetched by the latest run,
\*            whether fetch_positions returned (TRUE) or raised (FALSE)
\*   orders   the order calls made so far
\*   ret      the value returned to the route
\*   reads    get_positions, get_pending_orders and calculate_summary_stats
\*            called by the route: the fetch calls made so far, each with the
\*            exchange's answer
\*   pending  get_pending_orders: pending_orders
\*   stats    calculate_summary_stats: summary_stats
\*   args     execute_order, cancel_order: the remaining arguments of the call
ZeroStats == [portfolio_value |-> 0, total_pnl |-> 0, margin_used |-> 0]

\* side, order_type, quantity and price of execute_order (price 0 stands for a
\* price that is None or 0), order_id of cancel_order
Args(side, order_type, quantity, price, order_id) ==
    [side |-> side, order_type |-> order_type, quantity |-> quantity,
     price |-> price, order_id |-> order_id]

NoArgs == Args("", "", 0, 0, "")

IdleFrame ==
    [op |-> "idle", pc |-> "idle", todo |-> <<>>, data |-> <<>>, target |-> NoTarget,
     match |-> NoMatch, queue |-> <<>>, results |-> <<>>, closes |-> <<>>,
     fetched |-> <<>>, orders |-> <<>>, snapshot |-> <<>>, ret |-> NoResult,
     reads |-> <<>>, pending |-> <<>>, stats |-> ZeroStats, args |-> NoArgs]

\* the functions that only read the exchanges
ReadOps == {"get_positions", "get_pending_orders", "calculate_summary_stats"}

\* a fetch call on exchange ex: it returned `reply`, or raised (ok = FALSE)
Read(call, ex, ok, reply) ==
    [call |-> call, ex |-> ex, ok |-> ok, reply |-> IF ok THEN reply ELSE <<>>]

\* the value returned by a function that returns a dictionary
Returned == [status |-> "returned", message |-> "", order |-> [op |-> "none"]]

ClosingSide_Same(side) == IF side = "buy" \/ side = "long" THEN "buy" ELSE "sell"

\* a variant that buys only to close a short or sell-side position
ClosingSide_ShortOnly(side) == IF side = "sell" \/ side = "short" THEN "buy" ELSE "sell"

\* line 258: the side of the order that closes a position
ClosingSide(side) == IF side = "buy" \/ side = "long" THEN "sell" ELSE "buy"

\* lines 255-256: index of the first position for the symbol, 0 when none
FirstFor(positions, symbol) ==
    IF \E i \in DOMAIN positions : positions[i].symbol = symbol
    THEN CHOOSE i \in DOMAIN positions :
            /\ positions[i].symbol = symbol
            /\ \A j \in 1..(i - 1) : positions[j].symbol # symbol
    ELSE 0

\* positions_data.get(exchange_name, [])
PositionsOf(data, exchange_name) ==
    IF exchange_name \in DOMAIN data THEN data[exchange_name] ELSE <<>>

\* lines 285-286: the snapshot's positions in iteration order
RECURSIVE Flatten(_, _)
Flatten(data, order) ==
    IF order = <<>> THEN <<>>
    ELSE PositionsOf(data, Head(order)) \o Flatten(data, Tail(order))

\* line 289: results[f"{exchange_name}_{pos['symbol']}"] = result
\* (the key is modelled as the pair; no exchange name holds an underscore)
ResultKey(exchange_name, symbol) == <<exchange_name, symbol>>

Store(results, key, result) ==
    [k \in DOMAIN results \cup {key} |-> IF k = key THEN result ELSE results[k]]

\* get_positions is entered: lines 110-117
EnterGetPositions(f) ==
    [f EXCEPT !.pc = "fetch", !.todo = RegistrySeq(bl_exchanges), !.data = <<>>,
              !.fetched = <<>>]

\* close_position is entered with (exchange_name, symbol): lines 245-254
EnterClosePosition(f, exchange_name, symbol) ==
    EnterGetPositions([f EXCEPT !.target = [ex |-> exchange_name, symbol |-> symbol],
                                !.match = NoMatch,
                                !.closes = Append(@, <<exchange_name, symbol>>)])

\* close_position returns `result`: to the route, or to close_all_positions,
\* which stores it and goes on to the next position of its snapshot
ReturnFromClose(f, result) ==
    IF f.op = "close_position"
    THEN [f EXCEPT !.pc = "done", !.ret = result]
    ELSE LET stored == Store(f.results, ResultKey(f.target.ex, f.target.symbol), result)
             g == [f EXCEPT !.results = stored, !.queue = Tail(@)]
         IN  IF g.queue = <<>>
             THEN [g EXCEPT !.pc = "done", !.ret = [status |-> "map", message |-> "",
                                                   order |-> [op |-> "none"]]]
             ELSE EnterClosePosition(g, Head(g.queue).exchange, Head(g.queue).symbol)

\* get_positions has returned `data` to close_position: lines 254-264
AfterFetchForClose(f, data) ==
    LET positions == PositionsOf(data, f.target.ex)
        i == FirstFor(positions, f.target.symbol)
    IN  IF i # 0
        THEN [f EXCEPT !.pc = "order", !.match = positions[i], !.data = <<>>]
        ELSE ReturnFromClose([f EXCEPT !.data = <<>>], Error("no open position"))

\* get_positions has returned `data` to close_all_positions: lines 284-288
AfterFetchForCloseAll(f, data) ==
    LET q == Flatten(data, RegistrySeq(bl_exchanges))
        g == [f EXCEPT !.queue = q, !.snapshot = q, !.data = <<>>]
    IN  IF q = <<>>
        THEN [g EXCEPT !.pc = "done", !.ret = [status |-> "map", message |-> "",
                                              order |-> [op |-> "none"]]]
        ELSE EnterClosePosition(g, Head(q).exchange, Head(q).symbol)

\* get_positions has returned `data` to calculate_summary_stats: lines 359-361
AfterFetchForSummary(f, data) ==
    [f EXCEPT !.pc = "balance", !.todo = RegistrySeq(bl_exchanges), !.data = data]

\* get_positions returns positions_data to its caller: line 140
ReturnFromGetPositions(f, data) ==
    CASE f.op = "get_positions" -> [f EXCEPT !.pc = "done", !.data = data, !.ret = Returned]
      [] f.op = "calculate_summary_stats" -> AfterFetchForSummary(f, data)
      [] f.op = "close_all_positions" /\ f.target = NoTarget -> AfterFetchForCloseAll(f, data)
      [] OTHER -> AfterFetchForClose(f, data)

\* a variant in which an exchange whose fetch raised gets no entry
PositionsEntry_NoneOnError(data, exchange_name, ok, all_positions) ==
    IF ok THEN (exchange_name :> OpenPositions(all_positions, exchange_name)) @@ data
    ELSE data

\* lines 118-137: positions_data[exchange_name] = [] first, then the open
\* positions are appended unless fetch_positions raises
PositionsEntry(data, exchange_name, ok, all_positions) ==
    (exchange_name :> IF ok THEN OpenPositions(all_positions, exchange_name) ELSE <<>>)
       @@ data

\* The dashboard route calls get_positions(): lines 110-117
call_get_positions(w) ==
    /\ frame[w].op = "idle"
    /\ LET f == [IdleFrame EXCEPT !.op = "get_positions"]
       IN  frame' = [frame EXCEPT ![w] =
              IF bl_exchanges = {}
              THEN ReturnFromGetPositions(f, <<>>)
              ELSE EnterGetPositions(f)]
    /\ UNCHANGED <<bl_exchanges, account, startup, WEBHOOK_PIN, sh_exchanges, webVars, mailVars>>

\* lines 165-170: pending_orders[exchange_name] = orders unless
\* fetch_open_orders raises
PendingEntry(pending, exchange_name, ok, orders) ==
    IF ok THEN (exchange_name :> orders) @@ pending ELSE pending

\* The dashboard route calls get_pending_orders(): lines 157-164
call_get_pending_orders(w) ==
    /\ frame[w].op = "idle"
    /\ LET f == [IdleFrame EXCEPT !.op = "get_pending_orders"]
       IN  frame' = [frame EXCEPT ![w] =
              IF bl_exchanges = {}
              THEN [f EXCEPT !.pc = "done", !.ret = Returned]
              ELSE [f EXCEPT !.pc = "open_orders", !.todo = RegistrySeq(bl_exchanges)]]
    /\ UNCHANGED <<bl_exchanges, account, startup, WEBHOOK_PIN, sh_exchanges, webVars, mailVars>>

\* what an exchange may answer to fetch_open_orders
OrderLists == {<<>>, <<"order-1">>, <<"order-1", "order-2">>}

\* One iteration of the loop of get_pending_orders, lines 164-170; after the
\* last exchange the function returns (line 172)
fetch_open_orders(w) ==
    /\ frame[w].pc = "open_orders"
    /\ \E ok \in BOOLEAN, orders \in OrderLists :
          LET f == frame[w]
              e == Head(f.todo)
              g == [f EXCEPT !.todo = Tail(@),
                             !.pending = PendingEntry(@, e, ok, orders),
                             !.reads = Append(@, Read("fetch_open_orders", e, ok, orders))]
          IN  frame' = [frame EXCEPT ![w] =
                 IF g.todo # <<>> THEN g ELSE [g EXCEPT !.pc = "done", !.ret = Returned]]
    /\ UNCHANGED <<bl_exchanges, account, startup, WEBHOOK_PIN, sh_exchanges, webVars, mailVars>>

\* line 374: pos.get('marginRatio') on a dictionary built by get_positions
MarginRatioOf(pos) == IF "marginRatio" \in DOMAIN pos THEN pos.marginRatio ELSE <<>>

\* lines 371-376: the loop over the positions of one exchange
RECURSIVE AddPositions(_, _)
AddPositions(stats, positions) ==
    IF positions = <<>> THEN stats
    ELSE LET pos == Head(positions)
             margin_ratio == MarginRatioOf(pos)
             s1 == [stats EXCEPT !.total_pnl = @ + pos.unrealized_pnl]
             s2 == IF margin_ratio # <<>>
                   THEN [s1 EXCEPT !.margin_used = @ + pos.notional * margin_ratio[1]]
                   ELSE s1
         IN  AddPositions(s2, Tail(positions))

\* a variant that adds the balance only of an exchange that has open positions
Accumulate_BalanceIfPositions(stats, account_balance, positions) ==
    LET usdt == IF account_balance = <<>> \/ positions = <<>> THEN 0 ELSE account_balance[1]
    IN  AddPositions([stats EXCEPT !.portfolio_value = @ + usdt], positions)

\* a variant that counts the unrealized PnL of the first position only
Accumulate_FirstPosition(stats, account_balance, positions) ==
    LET usdt == IF account_balance = <<>> THEN 0 ELSE account_balance[1]
    IN  AddPositions([stats EXCEPT !.portfolio_value = @ + usdt],
                     IF positions = <<>> THEN <<>> ELSE <<Head(positions)>>)

\* lines 365-376: what one exchange adds to summary_stats; account_balance is
\* <<>> when the balance has no USDT total and <<v>> when the total is v
Accumulate(stats, account_balance, positions) ==
    LET usdt == IF account_balance = <<>> THEN 0 ELSE account_balance[1]
    IN  AddPositions([stats EXCEPT !.portfolio_value = @ + usdt], positions)

\* The dashboard route calls calculate_summary_stats(): lines 348-359
call_calculate_summary_stats(w) ==
    /\ frame[w].op = "idle"
    /\ LET f == [IdleFrame EXCEPT !.op = "calculate_summary_stats"]
       IN  frame' = [frame EXCEPT ![w] =
              IF bl_exchanges = {}
              THEN [f EXCEPT !.pc = "done", !.ret = Returned]
              ELSE EnterGetPositions(f)]
    /\ UNCHANGED <<bl_exchanges, account, startup, WEBHOOK_PIN, sh_exchanges, webVars, mailVars>>

\* what an exchange may answer to fetch_balance: the USDT total, if any
Balances == {<<>>, <<5>>, <<8>>}

\* One iteration of the loop of calculate_summary_stats, lines 361-379: the
\* balance is fetched and, unless the call raises, the exchange's balance and
\* positions are added; after the last exchange the function returns (line 382)
fetch_balance(w) ==
    /\ frame[w].pc = "balance"
    /\ \E ok \in BOOLEAN, account_balance \in Balances :
          LET f == frame[w]
              e == Head(f.todo)
              g == [f EXCEPT !.todo = Tail(@),
                             !.stats = IF ok
                                       THEN Accumulate(@, account_balance, PositionsOf(f.data, e))
                                       ELSE @,
                             !.reads = Append(@, Read("fetch_balance", e, ok, account_balance))]
          IN  frame' = [frame EXCEPT ![w] =
                 IF g.todo # <<>> THEN g ELSE [g EXCEPT !.pc = "done", !.ret = Returned]]
    /\ UNCHANGED <<bl_exchanges, account, startup, WEBHOOK_PIN, sh_exchanges, webVars, mailVars>>

\* calls made to an exchange client by execute_order and cancel_order
LimitOrderCall(ex, symbol, side, amount, price) ==
    [ex |-> ex, op |-> "create_limit_order", symbol |-> symbol, side |-> side,
     amount |-> amount, price |-> price]

CancelOrderCall(ex, order_id, symbol) ==
    [ex |-> ex, op |-> "cancel_order", symbol |-> symbol, id |-> order_id]

\* a call that ended by raising instead of returning a result
Raised == [status |-> "raised", message |-> "", order |-> [op |-> "none"]]

\* execute_order(exchange_name, symbol, side, order_type, quantity, price) is
\* called: lines 199-215, up to the exchange call
call_execute_order(w, exchange_name, symbol, side, order_type, quantity, price) ==
    /\ frame[w].op = "idle"
    /\ LET f == [IdleFrame EXCEPT !.op = "execute_order",
                                  !.target = [ex |-> exchange_name, symbol |-> symbol],
                                  !.args = Args(side, order_type, quantity, price, "")]
       IN  frame' = [frame EXCEPT ![w] =
              IF exchange_name \notin bl_exchanges
              THEN [f EXCEPT !.pc = "done", !.ret = Error("exchange not found")]
              ELSE IF order_type = "market" \/ (order_type = "limit" /\ price # 0)
              THEN [f EXCEPT !.pc = "place"]
              ELSE [f EXCEPT !.pc = "done", !.ret = Error("bad order type or no price")]]
    /\ UNCHANGED <<bl_exchanges, account, startup, WEBHOOK_PIN, sh_exchanges, webVars, mailVars>>

\* the order call of execute_order
OrderCallOf(f) ==
    IF f.args.order_type = "market"
    THEN MarketOrderCall(f.target.ex, f.target.symbol, f.args.side, f.args.quantity)
    ELSE LimitOrderCall(f.target.ex, f.target.symbol, f.args.side, f.args.quantity,
                        f.args.price)

\* a variant without the except clause: what the exchange raises leaves the function
place_order_Unguarded(w) ==
    /\ frame[w].pc = "place"
    /\ \E accept \in BOOLEAN :
          LET f == frame[w]
              c == OrderCallOf(f)
          IN  frame' = [frame EXCEPT ![w] =
                 [f EXCEPT !.pc = "done", !.orders = Append(@, c),
                           !.ret = IF accept THEN Success(c) ELSE Raised]]
    /\ UNCHANGED <<bl_exchanges, account, startup, WEBHOOK_PIN, sh_exchanges, webVars, mailVars>>

\* lines 207-222: execute_order places its order; the exchange accepts it or
\* the call raises
place_order(w) ==
    /\ frame[w].pc = "place"
    /\ \E accept \in BOOLEAN :
          LET f == frame[w]
              c == OrderCallOf(f)
          IN  frame' = [frame EXCEPT ![w] =
                 [f EXCEPT !.pc = "done", !.orders = Append(@, c),
                           !.ret = IF accept THEN Success(c) ELSE Error("exchange error")]]
    /\ UNCHANGED <<bl_exchanges, account, startup, WEBHOOK_PIN, sh_exchanges, webVars, mailVars>>

\* cancel_order(exchange_name, order_id, symbol) is called: lines 313-319
call_cancel_order(w, exchange_name, order_id, symbol) ==
    /\ frame[w].op = "idle"
    /\ LET f == [IdleFrame EXCEPT !.op = "cancel_order",
                                  !.target = [ex |-> exchange_name, symbol |-> symbol],
                                  !.args = Args("", "", 0, 0, order_id)]
       IN  frame' = [frame EXCEPT ![w] =
              IF exchange_name \notin bl_exchanges
              THEN [f EXCEPT !.pc = "done", !.ret = Error("exchange not found")]
              ELSE [f EXCEPT !.pc = "cancel"]]
    /\ UNCHANGED <<bl_exchanges, account, startup, WEBHOOK_PIN, sh_exchanges, webVars, mailVars>>

\* lines 321-327: exchange.cancel_order(order_id, symbol) returns or raises
exchange_cancel_order(w) ==
    /\ frame[w].pc = "cancel"
    /\ \E accept \in BOOLEAN :
          LET f == frame[w]
              c == CancelOrderCall(f.target.ex, f.args.order_id, f.target.symbol)
          IN  frame' = [frame EXCEPT ![w] =
                 [f EXCEPT !.pc = "done", !.orders = Append(@, c),
                           !.ret = IF accept THEN Success(c) ELSE Error("exchange error")]]
    /\ UNCHANGED <<bl_exchanges, account, startup, WEBHOOK_PIN, sh_exchanges, webVars, mailVars>>

\* The dashboard route calls close_position(exchange_name, symbol): lines 245-254
call_close_position(w, exchange_name, symbol) ==
    /\ frame[w].op = "idle"
    /\ LET f == [IdleFrame EXCEPT !.op = "close_position"]
       IN  frame' = [frame EXCEPT ![w] =
              IF exchange_name \notin bl_exchanges
              THEN [f EXCEPT !.pc = "done", !.ret = Error("exchange not found"),
                             !.target = [ex |-> exchange_name, symbol |-> symbol]]
              ELSE EnterClosePosition(f, exchange_name, symbol)]
    /\ UNCHANGED <<bl_exchanges, account, startup, WEBHOOK_PIN, sh_exchanges, webVars, mailVars>>

\* The dashboard route calls close_all_positions(): lines 281-284
call_close_all_positions(w) ==
    /\ frame[w].op = "idle"
    /\ LET f == [IdleFrame EXCEPT !.op = "close_all_positions"]
       IN  frame' = [frame EXCEPT ![w] =
              IF bl_exchanges = {}
              THEN AfterFetchForCloseAll(f, <<>>)        \* get_positions returns {}
              ELSE EnterGetPositions(f)]
    /\ UNCHANGED <<bl_exchanges, account, startup, WEBHOOK_PIN, sh_exchanges, webVars, mailVars>>

\* One iteration of the loop of get_positions, lines 117-137: the worker calls
\* exchange.fetch_positions() on the next exchange; the call returns what the
\* exchange reports now, or raises.  After the last exchange get_positions
\* returns and its caller runs on to its own next exchange call.
fetch_positions(w) ==
    /\ frame[w].pc = "fetch"
    /\ \E ok \in BOOLEAN :
          LET f    == frame[w]
              e    == Head(f.todo)
              data == PositionsEntry(f.data, e, ok, account[e])
              g    == [f EXCEPT !.fetched = (e :> ok) @@ @,
                                !.todo = Tail(@), !.data = data,
                                !.reads = IF f.op \in ReadOps
                                          THEN Append(@, Read("fetch_positions", e, ok, account[e]))
                                          ELSE @]
          IN  frame' = [frame EXCEPT ![w] =
                 IF g.todo # <<>> THEN g ELSE ReturnFromGetPositions(g, data)]
    /\ UNCHANGED <<bl_exchanges, account, startup, WEBHOOK_PIN, sh_exchanges, webVars, mailVars>>

\* lines 258-261 and 266-268: close_position places the closing market order;
\* the exchange accepts it or the call raises
create_market_order_Locked(w) ==
    /\ frame[w].pc = "order"
    /\ \A v \in Workers \ {w} :
          ~(frame[v].pc = "order" /\ frame[v].target = frame[w].target)
    /\ \E accept \in BOOLEAN :
          LET f == frame[w]
              c == MarketOrderCall(f.target.ex, f.target.symbol,
                                   ClosingSide(f.match.side), f.match.contracts)
              g == [f EXCEPT !.orders = Append(@, c)]
          IN  frame' = [frame EXCEPT ![w] =
                 ReturnFromClose(g, IF accept THEN Success(c) ELSE Error("exchange error"))]
    /\ UNCHANGED <<bl_exchanges, account, startup, WEBHOOK_PIN, sh_exchanges, webVars, mailVars>>

create_market_order(w) ==
    /\ frame[w].pc = "order"
    /\ \E accept \in BOOLEAN :
          LET f == frame[w]
              c == MarketOrderCall(f.target.ex, f.target.symbol,
                                   ClosingSide(f.match.side), f.match.contracts)
              g == [f EXCEPT !.orders = Append(@, c)]
          IN  frame' = [frame EXCEPT ![w] =
                 ReturnFromClose(g, IF accept THEN Success(c) ELSE Error("exchange error"))]
    /\ UNCHANGED <<bl_exchanges, account, startup, WEBHOOK_PIN, sh_exchanges, webVars, mailVars>>

\* a variant that drops an exchange from the registry when a call on it
\* ended in an error
respond_Evicting(w) ==
    /\ frame[w].pc = "done"
    /\ frame' = [frame EXCEPT ![w] = IdleFrame]
    /\ bl_exchanges' = IF frame[w].ret.status = "error"
                       THEN bl_exchanges \ {frame[w].target.ex}
                       ELSE bl_exchanges
    /\ UNCHANGED <<account, startup, WEBHOOK_PIN, sh_exchanges, webVars, mailVars>>

\* the route has sent its response; the worker takes the next request
respond(w) ==
    /\ frame[w].pc = "done"
    /\ frame' = [frame EXCEPT ![w] = IdleFrame]
    /\ UNCHANGED <<bl_exchanges, account, startup, WEBHOOK_PIN, sh_exchanges, webVars, mailVars>>

\* The exchange account is external state: a position is closed (by a fill, a
\* liquidation, or the account's owner) and is no longer reported.
PositionGone(e, i) ==
    /\ i \in DOMAIN account[e]
    /\ account' = [account EXCEPT ![e] =
                      SubSeq(@, 1, i - 1) \o SubSeq(@, i + 1, Len(@))]
    /\ UNCHANGED <<bl_exchanges, frame, startup, WEBHOOK_PIN, sh_exchanges, webVars, mailVars>>

----------------------------------------------------------------------------
(* email_reader.py *)

\* A Subject header is a sequence of tokens: the marker "Alert:", a space, a
\* line break, a zero-width character, the HTML entity of a zero-width space,
\* a quoted-printable escape of a space, a character outside ASCII, other
\* text, or a serialized JSON document.
Tok(name) == [tok |-> name, v |-> Null]
Doc(v)    == [tok |-> "doc", v |-> v]

Marker   == Tok("Alert:")
Space    == Tok(" ")
LineEnd  == Tok("\n")
ZeroW    == Tok("zwsp")
ZeroWEnt == Tok("&#8203;")
QpSpace  == Tok("=20")
NonAscii == Tok("non-ascii")
Text     == Tok("text")

IsBlank(t) == t \in {Space, LineEnd}

RECURSIVE LStripTok(_)
LStripTok(s) == IF s # <<>> /\ IsBlank(Head(s)) THEN LStripTok(Tail(s)) ELSE s

RECURSIVE RStripTok(_)
RStripTok(s) ==
    IF s # <<>> /\ IsBlank(s[Len(s)]) THEN RStripTok(SubSeq(s, 1, Len(s) - 1)) ELSE s

\* str.strip() on a subject
StripTok(s) == RStripTok(LStripTok(s))

\* line 123: quopri.decodestring(subject).decode('utf-8'); a subject holding a
\* character outside ASCII makes the call raise
QuopriDecode(s) ==
    IF \E i \in DOMAIN s : s[i] = NonAscii
    THEN [ok |-> FALSE, exc |-> "ValueError"]
    ELSE [ok |-> TRUE, s |-> [i \in DOMAIN s |-> IF s[i] = QpSpace THEN Space ELSE s[i]]]

\* line 69: html.unescape
Unescape(s) == [i \in DOMAIN s |-> IF s[i] = ZeroWEnt THEN ZeroW ELSE s[i]]

\* line 72: re.sub removing U+200B..U+200D and U+FEFF
DropZeroWidth(s) == SelectSeq(s, LAMBDA t : t # ZeroW)

\* line 73: .replace('\n', '').replace('\r', '')
DropLineEnds(s) == SelectSeq(s, LAMBDA t : t # LineEnd)

\* a variant that decodes the first document and ignores what follows it
JsonLoads_FirstDocument(s) ==
    LET t == StripTok(s)
    IN  IF t # <<>> /\ t[1].tok = "doc"
        THEN [ok |-> TRUE, v |-> t[1].v]
        ELSE [ok |-> FALSE, exc |-> "JSONDecodeError"]

\* line 76: json.loads: one document, blanks allowed around it
JsonLoads(s) ==
    LET t == StripTok(s)
    IN  IF Len(t) = 1 /\ t[1].tok = "doc"
        THEN [ok |-> TRUE, v |-> t[1].v]
        ELSE [ok |-> FALSE, exc |-> "JSONDecodeError"]

\* a variant that takes the document of a subject without the marker too
parse_email_subject_AnySubject(subject) ==
    LET s == StripTok(subject)
        j == JsonLoads(IF s # <<>> /\ Head(s) = Marker THEN Tail(s) ELSE s)
    IN  IF j.ok THEN j.v ELSE Null

\* parse_email_subject: the document, or Null for None
parse_email_subject(subject) ==
    LET s == StripTok(subject)
    IN  IF s # <<>> /\ Head(s) = Marker
        THEN LET json_part == StripTok(Tail(s))
                 cleaned   == DropLineEnds(DropZeroWidth(Unescape(json_part)))
                 j         == JsonLoads(cleaned)
             IN  IF j.ok THEN j.v ELSE Null
        ELSE Null

\* `if alert_data:`: None, an empty object are false
Truthy(v) ==
    CASE v.t = "null" -> FALSE
      [] v.t = "obj"  -> DOMAIN v.o # {}
      [] OTHER        -> TRUE

\* a variant of the PIN check with the comparison the wrong way round
MailPinCheck_Inverted(alert_data, pin) ==
    IF pin = <<>> THEN [ok |-> TRUE, pass |-> TRUE]
    ELSE IF alert_data.t # "obj" THEN [ok |-> FALSE, exc |-> "AttributeError"]
    ELSE [ok |-> TRUE, pass |-> Get(alert_data.o, "PIN", Str(<<>>)) # Str(pin)]

\* lines 133-137: incoming_pin = alert_data.get("PIN", ""), compared when a
\* PIN is configured; [ok |-> FALSE] when the call raises (no dict)
MailPinCheck(alert_data, pin) ==
    IF pin = <<>> THEN [ok |-> TRUE, pass |-> TRUE]
    ELSE IF alert_data.t # "obj" THEN [ok |-> FALSE, exc |-> "AttributeError"]
    ELSE [ok |-> TRUE, pass |-> Get(alert_data.o, "PIN", Str(<<>>)) = Str(pin)]

\* lines 114-145, up to the call of mail.store: what becomes of one message.
\*   "skipped"  fetch status not OK
\*   "fetch_raised"  mail.fetch raised, caught at line 146
\*   "raised"   decoding the subject or the PIN check raised, caught at line 146
\*   "ignored"  no signal (no marker, parse failure, empty document)
\*   "bad_pin"  PIN mismatch
\*   "signal"   process_signal is to be called with `data`
Examine(msg, fetched, pin) ==
    IF fetched = "no" THEN [what |-> "skipped", data |-> Null]
    ELSE IF fetched = "raise" THEN [what |-> "fetch_raised", data |-> Null]
    ELSE LET q == QuopriDecode(msg.subject) IN
         IF ~q.ok THEN [what |-> "raised", data |-> Null]
         ELSE LET alert_data == parse_email_subject(q.s) IN
              IF ~Truthy(alert_data) THEN [what |-> "ignored", data |-> Null]
              ELSE LET c == MailPinCheck(alert_data, pin) IN
                   IF ~c.ok THEN [what |-> "raised", data |-> Null]
                   ELSE IF ~c.pass THEN [what |-> "bad_pin", data |-> alert_data]
                   ELSE [what |-> "signal", data |-> alert_data]

Message(subject) == [subject |-> subject, seen |-> FALSE]

\* a variant that searches ALL instead of UNSEEN
Unseen_All(box, i) == [j \in 1..(Len(box) - i + 1) |-> i + j - 1]

\* line 102/108: the ids of the unread messages, in mailbox order
RECURSIVE Unseen(_, _)
Unseen(box, i) ==
    IF i > Len(box) THEN <<>>
    ELSE (IF box[i].seen THEN <<>> ELSE <<i>>) \o Unseen(box, i + 1)

MaxCycles == 2      \* poll cycles run
MaxMessages == 2    \* messages in the INBOX

\* The polling loop.
\*   pc      "sleep" between cycles; "loop" at the head of the for loop;
\*           "store" between process_signal and mail.store
\*   ids     email_ids still to be handled in this cycle
\*   cycle   poll cycles started
\*   passed  per message: how often it was passed to process_signal
\*   e_id    the message handled last (0: none yet)
\*   last    what became of that message
\*   log     what the call of process_signal for that message did
ReaderStart ==
    [pc |-> "sleep", ids |-> <<>>, cycle |-> 0,
     passed |-> [i \in 1..MaxMessages |-> 0],
     e_id |-> 0, last |-> "none", log |-> NotCalled]

\* a variant driven by a timer: a poll cycle starts whether or not the
\* previous one has ended
begin_check_inbox_Timer ==
    /\ reader.pc \in {"sleep", "loop"}
    /\ reader.cycle < MaxCycles
    /\ \E ok \in BOOLEAN :
          reader' = [reader EXCEPT !.cycle = @ + 1,
                                   !.pc = IF ok THEN "loop" ELSE "sleep",
                                   !.ids = IF ok THEN Unseen(mailbox, 1) ELSE <<>>]
    /\ UNCHANGED <<mailbox, startup, WEBHOOK_PIN, sh_exchanges, webVars, dashVars>>

\* check_inbox, lines 87-109: connect, login, select and search; if one of them
\* raises (or the search status is not OK) the cycle ends at once
begin_check_inbox ==
    /\ reader.pc = "sleep"
    /\ reader.cycle < MaxCycles
    /\ \E ok \in BOOLEAN :
          reader' = [reader EXCEPT !.cycle = @ + 1,
                                   !.pc = IF ok THEN "loop" ELSE "sleep",
                                   !.ids = IF ok THEN Unseen(mailbox, 1) ELSE <<>>]
    /\ UNCHANGED <<mailbox, startup, WEBHOOK_PIN, sh_exchanges, webVars, dashVars>>

\* a variant without the handler of line 146: an exception raised while a
\* message is handled reaches line 153 and ends the cycle
examine_message_Abort ==
    /\ reader.pc = "loop"
    /\ reader.ids # <<>>
    /\ \E fetched \in {"ok", "no", "raise"}, accept \in BOOLEAN :
          LET e_id == Head(reader.ids)
              r    == Examine(mailbox[e_id], fetched, WEBHOOK_PIN)
          IN  IF r.what = "signal"
              THEN reader' = [reader EXCEPT
                                 !.pc = "store",
                                 !.passed[e_id] = @ + 1,
                                 !.e_id = e_id,
                                 !.last = r.what,
                                 !.log = process_signal(r.data, sh_exchanges, accept)]
              ELSE IF r.what \in {"raised", "fetch_raised"}
              THEN reader' = [reader EXCEPT !.pc = "sleep", !.ids = <<>>, !.e_id = e_id,
                                            !.last = r.what, !.log = NotCalled]
              ELSE reader' = [reader EXCEPT !.ids = Tail(@), !.e_id = e_id,
                                            !.last = r.what, !.log = NotCalled]
    /\ UNCHANGED <<mailbox, startup, WEBHOOK_PIN, sh_exchanges, webVars, dashVars>>

\* one iteration of the for loop, lines 111-140: fetch the message, decode and
\* parse its subject, check the PIN and call process_signal
examine_message ==
    /\ reader.pc = "loop"
    /\ reader.ids # <<>>
    /\ \E fetched \in {"ok", "no", "raise"}, accept \in BOOLEAN :
          LET e_id == Head(reader.ids)
              r    == Examine(mailbox[e_id], fetched, WEBHOOK_PIN)
          IN  IF r.what = "signal"
              THEN reader' = [reader EXCEPT
                                 !.pc = "store",
                                 !.passed[e_id] = @ + 1,
                                 !.e_id = e_id,
                                 !.last = r.what,
                                 !.log = process_signal(r.data, sh_exchanges, accept)]
              ELSE reader' = [reader EXCEPT !.ids = Tail(@), !.e_id = e_id,
                                            !.last = r.what, !.log = NotCalled]
    /\ UNCHANGED <<mailbox, startup, WEBHOOK_PIN, sh_exchanges, webVars, dashVars>>

\* a variant in which an exception of mail.store leaves check_inbox and ends
\* the loop of run_email_reader
mark_seen_Fatal ==
    /\ reader.pc = "store"
    /\ \E ok \in BOOLEAN :
          LET e_id == Head(reader.ids)
          IN  /\ mailbox' = IF ok THEN [mailbox EXCEPT ![e_id].seen = TRUE] ELSE mailbox
              /\ reader' = [reader EXCEPT !.pc = IF ok THEN "loop" ELSE "stopped",
                                          !.ids = Tail(@),
                                          !.last = IF ok THEN "stored" ELSE "store_raised"]
    /\ UNCHANGED <<startup, WEBHOOK_PIN, sh_exchanges, webVars, dashVars>>

\* a variant that marks the message read only when an order was placed
mark_seen_PlacedOnly ==
    /\ reader.pc = "store"
    /\ \E ok \in BOOLEAN :
          LET e_id == Head(reader.ids)
              mark == ok /\ reader.log.msg = "placed"
          IN  /\ mailbox' = IF mark THEN [mailbox EXCEPT ![e_id].seen = TRUE] ELSE mailbox
              /\ reader' = [reader EXCEPT !.pc = "loop", !.ids = Tail(@),
                                          !.last = IF ok THEN "stored" ELSE "store_raised"]
    /\ UNCHANGED <<startup, WEBHOOK_PIN, sh_exchanges, webVars, dashVars>>

\* line 142: mail.store(e_id, "+FLAGS", "\\Seen"); the call may raise, which
\* line 146 catches
mark_seen ==
    /\ reader.pc = "store"
    /\ \E ok \in BOOLEAN :
          LET e_id == Head(reader.ids)
          IN  /\ mailbox' = IF ok THEN [mailbox EXCEPT ![e_id].seen = TRUE] ELSE mailbox
              /\ reader' = [reader EXCEPT !.pc = "loop", !.ids = Tail(@),
                                          !.last = IF ok THEN "stored" ELSE "store_raised"]
    /\ UNCHANGED <<startup, WEBHOOK_PIN, sh_exchanges, webVars, dashVars>>

\* lines 149-154 and run_email_reader, lines 161-164: logout (whether or not
\* it raises), return, sleep
end_check_inbox ==
    /\ reader.pc = "loop"
    /\ reader.ids = <<>>
    /\ reader' = [reader EXCEPT !.pc = "sleep"]
    /\ UNCHANGED <<mailbox, startup, WEBHOOK_PIN, sh_exchanges, webVars, dashVars>>

----------------------------------------------------------------------------
(* Specification of the webhook path *)

DashOff == /\ bl_exchanges = {}
           /\ account = [e \in ExchangeNames |-> <<>>]
           /\ frame = [w \in Workers |-> [op |-> "idle"]]

\* both modules have been imported; how is not recorded
Started == [sh |-> "up", bl |-> "up"]

MailOff == /\ mailbox = <<>>
           /\ reader = ReaderStart

WebOff  == /\ request = NoRequest
           /\ wpc = [w \in Workers |-> "idle"]
           /\ response = [w \in Workers |-> NoResponse]
           /\ signal = [w \in Workers |-> NotCalled]

Init ==
    /\ WEBHOOK_PIN \in Configs
    /\ sh_exchanges \in SUBSET ExchangeNames
    /\ startup = Started
    /\ WebOff
    /\ DashOff
    /\ MailOff

Next ==
    \/ Arrive
    \/ \E w \in Workers : trade_signal(w)

Spec == Init /\ [][Next]_vars

----------------------------------------------------------------------------
(* Properties of the webhook path *)

ObjectRequest == request.kind = "json" /\ request.json.t = "obj"
Payload       == request.json.o
Called(w)     == wpc[w] = "done" /\ signal[w] # NotCalled

\* the payload's value under key k, Absent when it holds none
Field(k) == IF k \in DOMAIN Payload THEN Payload[k] ELSE Absent

\* the payload passes the PIN gate
PinOk == WEBHOOK_PIN = <<>> \/ Field("PIN") = Str(WEBHOOK_PIN)

\* C1: with a PIN configured, a request whose JSON object carries another PIN,
\* or none, is answered 403 and process_signal is not called (so no exchange
\* call is made), whatever the other fields hold.
C1_PinGate ==
    \A w \in Workers :
        (wpc[w] = "done" /\ ObjectRequest /\ WEBHOOK_PIN # <<>>
            /\ Field("PIN") # Str(WEBHOOK_PIN))
        => /\ response[w] = Response(403, "Invalid pin")
           /\ signal[w] = NotCalled
           /\ signal[w].calls = <<>>

\* a complete, valid market order for a configured exchange, without a PIN,
\* has been refused
C1_Witness ==
    \E w \in Workers :
        /\ wpc[w] = "done" /\ ObjectRequest /\ WEBHOOK_PIN = pin1234
        /\ Payload = MkObj(Str(binance), Str(BTCUSDT), Str(buy), Str(market),
                           Str(<<"0",".","0","1">>), Absent, Absent)
        /\ binance \in sh_exchanges
        /\ response[w].code = 403

MissingRequired == {k \in {"EXCHANGE", "SYMBOL", "SIDE", "ORDER_TYPE", "QUANTITY"} :
                        k \notin DOMAIN Payload}

\* C2: a payload lacking a required field is rejected by process_signal as a
\* missing field (one of those it lacks) and no exchange call is made.
C2_MissingField ==
    \A w \in Workers :
        (Called(w) /\ ObjectRequest /\ MissingRequired # {})
        => /\ signal[w].msg = "missing_field"
           /\ signal[w].detail \in MissingRequired
           /\ signal[w].calls = <<>>

\* an otherwise valid limit order for a configured exchange, lacking QUANTITY
C2_Witness ==
    \E w \in Workers :
        /\ Called(w) /\ ObjectRequest
        /\ Payload = MkObj(Str(binance), Str(BTCUSDT), Str(buy), Str(<<"L","i","m","i","t">>),
                           Absent, Str(<<"3","0","0","0">>), Absent)
        /\ binance \in sh_exchanges
        /\ signal[w].msg = "missing_field" /\ signal[w].detail = "QUANTITY"

\* the payload is complete and well-formed: every check of lines 79-111 passes
ValidPayload ==
    /\ MissingRequired = {}
    /\ \A k \in {"EXCHANGE", "SIDE", "ORDER_TYPE"} : Field(k).t = "str"
    /\ Lower(Field("SIDE").s) \in {buy, sell}
    /\ Lower(Field("ORDER_TYPE").s) \in {market, limit}
    /\ ToFloat(Field("QUANTITY")).ok
    /\ Lower(Field("ORDER_TYPE").s) = limit
          => (Field("PRICE") # Absent /\ ToFloat(Field("PRICE")).ok)

\* C7: a valid payload naming a configured exchange makes process_signal
\* submit exactly one order, to that exchange: a market order carries the
\* payload's symbol, side and quantity and no price (a PRICE in the payload is
\* ignored), a limit order carries the parsed PRICE as well.
C7_OneOrder ==
    \A w \in Workers :
        (Called(w) /\ ObjectRequest /\ ValidPayload
            /\ Lower(Field("EXCHANGE").s) \in sh_exchanges)
        => signal[w].calls =
             << [ex     |-> Lower(Field("EXCHANGE").s),
                 op     |-> "create_order",
                 symbol |-> Field("SYMBOL"),
                 type   |-> Lower(Field("ORDER_TYPE").s),
                 side   |-> Lower(Field("SIDE").s),
                 amount |-> ToFloat(Field("QUANTITY")).v,
                 price  |-> IF Lower(Field("ORDER_TYPE").s) = limit
                            THEN ToFloat(Field("PRICE")).v ELSE NoPrice] >>

\* a market buy of 0.01 BTC/USDT on binance whose payload also carries a PRICE
C7_Witness ==
    \E w \in Workers :
        /\ Called(w) /\ ObjectRequest
        /\ Payload = MkObj(Str(binance), Str(BTCUSDT), Str(buy), Str(market),
                           Str(<<"0",".","0","1">>), Str(<<"3","0","0","0">>), Absent)
        /\ signal[w].calls =
             << [ex |-> binance, op |-> "create_order", symbol |-> Str(BTCUSDT),
                 type |-> market, side |-> buy, amount |-> Fin(1, 2),
                 price |-> NoPrice] >>

\* C8: the webhook response does not depend on what became of the signal: two
\* requests with the same JSON-object body under the same configuration get
\* the same response, and it is 200 ok whenever process_signal was reached.
C8_ResponseIndependent ==
    ObjectRequest =>
        /\ \A w1, w2 \in Workers :
              (wpc[w1] = "done" /\ wpc[w2] = "done") => response[w1] = response[w2]
        /\ \A w \in Workers : Called(w) => response[w] = Response(200, "ok")

\* the same body handled twice: the exchange accepted one order and raised on
\* the other, and both requests were answered alike
C8_Witness ==
    \E w1, w2 \in Workers :
        /\ Called(w1) /\ Called(w2) /\ ObjectRequest
        /\ signal[w1].msg = "placed"
        /\ signal[w2].msg = "exception" /\ signal[w2].calls # <<>>
        /\ response[w1].code = 200 /\ response[w2].code = 200

\* C9: a request whose body is missing or is not JSON is answered 400, and
\* process_signal is not called for it.
C9_MalformedIs400 ==
    \A w \in Workers :
        (wpc[w] = "done" /\ request.kind \in {"malformed", "none"})
        => /\ response[w].code = 400
           /\ signal[w] = NotCalled

----------------------------------------------------------------------------
(* Specification of the control operations of bot_logic *)

MaxPositions == 2      \* positions reported over all exchange accounts together

\* The positions an exchange may report.  For the symbol the dashboard asks
\* about: long and short positions of every size, 0 being a position the
\* exchange lists as flat, and one position for each other value of `side`;
\* for the other symbol: an open long and an open short.
Sizes == {0, 1, 2}

RawPositions ==
    {RawPos("BTC/USDT", side, n) : side \in {"long", "short"}, n \in Sizes}
      \cup {RawPos("BTC/USDT", side, 1) : side \in {"buy", "sell"}}
      \cup {RawPos("ETH/USDT", side, 2) : side \in {"long", "short"}}

\* how many positions each exchange reports: the exchanges that are not
\* configured are never read and report none
Splits(registry) ==
    {k \in [ExchangeNames -> 0..MaxPositions] :
        /\ k[bybit] + k[binance] <= MaxPositions
        /\ \A e \in ExchangeNames \ registry : k[e] = 0}

Accounts(registry) ==
    UNION { {[e \in ExchangeNames |-> IF e = bybit THEN a ELSE b] :
                a \in [1..k[bybit] -> RawPositions],
                b \in [1..k[binance] -> RawPositions]} : k \in Splits(registry) }

\* what the dashboard asks to close: positions exist for both symbols, so one
\* requested symbol meets matching, non-matching and absent positions
RequestedExchanges == {bybit, binance, kraken}
RequestedSymbols   == {"BTC/USDT"}

DashInit ==
    /\ WEBHOOK_PIN = <<>>
    /\ sh_exchanges = {}
    /\ startup = Started
    /\ WebOff
    /\ MailOff
    /\ bl_exchanges \in SUBSET ExchangeNames
    /\ account \in Accounts(bl_exchanges)
    /\ frame = [w \in Workers |-> IdleFrame]

DashNext ==
    \/ \E ex \in RequestedExchanges, sym \in RequestedSymbols :
          call_close_position(1, ex, sym)
    \/ call_close_all_positions(1)
    \/ fetch_positions(1)
    \/ create_market_order(1)
    \/ respond(1)

SpecDash == DashInit /\ [][DashNext]_vars

----------------------------------------------------------------------------
(* Specification of concurrent close requests: both dashboard workers, and  *)
(* an exchange account that changes under them                              *)

\* the contested positions are on binance; bybit, when configured, reports none
RaceInit ==
    /\ WEBHOOK_PIN = <<>>
    /\ sh_exchanges = {}
    /\ startup = Started
    /\ WebOff
    /\ MailOff
    /\ bl_exchanges \in {{binance}, {bybit, binance}}
    /\ account \in Accounts({binance})
    /\ frame = [w \in Workers |-> IdleFrame]

RaceNext ==
    \/ \E w \in Workers, ex \in ExchangeNames, sym \in RequestedSymbols :
          call_close_position(w, ex, sym)
    \/ \E w \in Workers : fetch_positions(w)
    \/ \E w \in Workers : create_market_order(w)
    \/ \E e \in ExchangeNames, i \in 1..MaxPositions : PositionGone(e, i)

SpecRace == RaceInit /\ [][RaceNext]_vars

----------------------------------------------------------------------------
(* Properties of the control operations *)

\* worker w has finished a call of close_position on a configured exchange
ClosedOne(w) ==
    /\ frame[w].op = "close_position" /\ frame[w].pc = "done"
    /\ frame[w].target.ex \in bl_exchanges

\* the exchange of the call answered fetch_positions (it did not raise)
TargetFetched(w) ==
    /\ frame[w].target.ex \in DOMAIN frame[w].fetched
    /\ frame[w].fetched[frame[w].target.ex]

\* the positions with contracts > 0 that exchange ex reports for the symbol
OpenFor(ex, symbol) ==
    SelectSeq(account[ex], LAMBDA p : p.symbol = symbol /\ p.contracts > 0)

\* C3: close_position, when the exchange reports an open long (or buy-side)
\* position of size Q for the symbol, issues exactly one market order: sell,
\* size Q, on that symbol; for an open short (or sell-side) position exactly
\* one market order: buy, size Q.  (The position is the first open one the
\* exchange lists for the symbol.)
C3_CloseOffsets ==
    \A w \in Workers :
        (ClosedOne(w) /\ TargetFetched(w)
            /\ OpenFor(frame[w].target.ex, frame[w].target.symbol) # <<>>)
        => LET ex == frame[w].target.ex
               p  == Head(OpenFor(ex, frame[w].target.symbol))
           IN  /\ p.side \in {"long", "buy"} =>
                     frame[w].orders = << [ex |-> ex, op |-> "create_market_order",
                                           symbol |-> frame[w].target.symbol,
                                           side |-> "sell", amount |-> p.contracts] >>
               /\ p.side \in {"short", "sell"} =>
                     frame[w].orders = << [ex |-> ex, op |-> "create_market_order",
                                           symbol |-> frame[w].target.symbol,
                                           side |-> "buy", amount |-> p.contracts] >>

\* binance lists a flat BTC/USDT position and then a long one of size 2; the
\* call sold 2
C3_Witness ==
    \E w \in Workers :
        /\ ClosedOne(w) /\ TargetFetched(w)
        /\ frame[w].target = [ex |-> binance, symbol |-> "BTC/USDT"]
        /\ account[binance] = << RawPos("BTC/USDT", "short", 0), RawPos("BTC/USDT", "long", 2) >>
        /\ frame[w].orders = << [ex |-> binance, op |-> "create_market_order",
                                 symbol |-> "BTC/USDT", side |-> "sell", amount |-> 2] >>

\* C4: close_position for a symbol with no open position (contracts > 0) on
\* the exchange returns the error result 'no open position' and issues no
\* order.
C4_NoOpenPosition ==
    \A w \in Workers :
        (ClosedOne(w) /\ OpenFor(frame[w].target.ex, frame[w].target.symbol) = <<>>)
        => /\ frame[w].ret = Error("no open position")
           /\ frame[w].orders = <<>>

\* binance answered with a flat BTC/USDT position and an open ETH/USDT one
C4_Witness ==
    \E w \in Workers :
        /\ ClosedOne(w) /\ TargetFetched(w)
        /\ frame[w].target = [ex |-> binance, symbol |-> "BTC/USDT"]
        /\ account[binance] = << RawPos("BTC/USDT", "long", 0), RawPos("ETH/USDT", "long", 2) >>
        /\ frame[w].ret.status = "error"

\* C5: close_all_positions, with N open positions in its snapshot, calls
\* close_position exactly N times and returns a result map with exactly N
\* entries, whatever subset of the closes succeeds.
C5_OneResultPerPosition ==
    \A w \in Workers :
        (frame[w].op = "close_all_positions" /\ frame[w].pc = "done")
        => /\ Len(frame[w].closes) = Len(frame[w].snapshot)
           /\ Cardinality(DOMAIN frame[w].results) = Len(frame[w].snapshot)

\* C6: close_position holds no lock between reading the position and placing
\* its order: a worker that has found the position open can always place its
\* order, whatever the other worker is doing, and the order it places is the
\* full-size offsetting order for the position it read, whatever has become
\* of the account or been ordered since.
C6_ReadThenAct ==
    \A w \in Workers :
        /\ frame[w].pc = "order" => ENABLED create_market_order(w)
        /\ (frame[w].op = "close_position" /\ frame[w].pc = "done"
                /\ frame[w].match # NoMatch)
           => frame[w].orders =
                 << [ex |-> frame[w].target.ex, op |-> "create_market_order",
                     symbol |-> frame[w].target.symbol,
                     side |-> IF frame[w].match.side \in {"long", "buy"}
                              THEN "sell" ELSE "buy",
                     amount |-> frame[w].match.contracts] >>

\* both workers were asked to close the same (exchange, symbol), both have
\* read the same open position, and neither has placed its order yet
C6_BothReadBeforeEitherOrders ==
    \E w1, w2 \in Workers :
        /\ w1 # w2
        /\ frame[w1].pc = "order" /\ frame[w2].pc = "order"
        /\ frame[w1].target = frame[w2].target
        /\ frame[w1].match = frame[w2].match
        /\ frame[w1].match.contracts = 2
        /\ frame[w1].orders = <<>> /\ frame[w2].orders = <<>>

\* the double close: the exchange reported one long position of size 2, and
\* each of the two calls has sold 2
C6_DoubleClose ==
    \E w1, w2 \in Workers :
        /\ w1 # w2
        /\ ClosedOne(w1) /\ ClosedOne(w2)
        /\ frame[w1].target = frame[w2].target
        /\ frame[w1].match # NoMatch
        /\ frame[w1].match = frame[w2].match
        /\ frame[w1].match.side = "long" /\ frame[w1].match.contracts = 2
        /\ frame[w1].ret.status = "success" /\ frame[w2].ret.status = "success"
        /\ \A w \in {w1, w2} :
              /\ Len(frame[w].orders) = 1
              /\ frame[w].orders[1].side = "sell" /\ frame[w].orders[1].amount = 2

----------------------------------------------------------------------------
(* Specification of the mailbox path *)

SignalDoc(ex, qty, pin) ==
    Obj(MkObj(Str(ex), Str(BTCUSDT), Str(buy), Str(market), qty, Absent, pin))

\* the documents a subject may carry: a valid market order with the right PIN,
\* with a wrong one and with none; one that lacks QUANTITY; one for an
\* exchange that is not configured; an empty object; an array
MailDocs ==
    { SignalDoc(binance, Str(<<"0",".","0","1">>), Str(pin1234)),
      SignalDoc(binance, Str(<<"0",".","0","1">>), Str(<<"0","0","0","0">>)),
      SignalDoc(binance, Str(<<"0",".","0","1">>), Absent),
      SignalDoc(binance, Absent, Str(pin1234)),
      SignalDoc(kraken, Str(<<"0",".","0","1">>), Str(pin1234)),
      Obj(<<>>),
      Arr }

GoodDoc == SignalDoc(binance, Str(<<"0",".","0","1">>), Str(pin1234))

Subjects ==
    { <<Marker, Space, Doc(d)>> : d \in MailDocs }
      \cup { <<Doc(GoodDoc)>>,                              \* no marker
             <<Marker, Doc(GoodDoc), Text>>,                \* JSON followed by text
             <<QpSpace, Marker, ZeroWEnt, Doc(GoodDoc), ZeroW, LineEnd>>,
             <<NonAscii, Marker, Doc(GoodDoc)>> }

Messages == {Message(s) : s \in Subjects}

\* the messages that follow the first one in the INBOX: an alert with the
\* right PIN, one with a wrong PIN, an order without the marker, a subject
\* that cannot be decoded
LaterSubjects ==
    { <<Marker, Space, Doc(GoodDoc)>>,
      <<Marker, Space, Doc(SignalDoc(binance, Str(<<"0",".","0","1">>), Str(<<"0","0","0","0">>)))>>,
      <<Doc(GoodDoc)>>,
      <<NonAscii, Marker, Doc(GoodDoc)>> }

Mailboxes ==
    { box \in [1..MaxMessages -> Messages] :
         \A i \in 2..MaxMessages : box[i].subject \in LaterSubjects }

MailInit ==
    /\ WEBHOOK_PIN \in Configs
    /\ sh_exchanges = {binance}
    /\ startup = Started
    /\ WebOff
    /\ DashOff
    /\ mailbox \in Mailboxes
    /\ reader = ReaderStart

MailNext ==
    \/ begin_check_inbox
    \/ examine_message
    \/ mark_seen
    \/ end_check_inbox

SpecMail == MailInit /\ [][MailNext]_vars

----------------------------------------------------------------------------
(* Properties of the mailbox path *)

\* the subject as the reader sees it: quoted-printable escapes decoded,
\* surrounding blanks dropped
Shown(m) == LStripTok([i \in DOMAIN m.subject |->
                          IF m.subject[i] = QpSpace THEN Space ELSE m.subject[i]])

StartsWithAlert(m) ==
    /\ \A i \in DOMAIN m.subject : m.subject[i] # NonAscii
    /\ Shown(m) # <<>>
    /\ Shown(m)[1] = Marker

\* what follows the marker, without blanks and zero-width characters
AfterAlert(m) ==
    SelectSeq(Tail(Shown(m)), LAMBDA t : t \notin {Space, LineEnd, ZeroW, ZeroWEnt})

\* the subject starts with the marker, what follows is the JSON object d, and
\* d carries the configured PIN (any non-empty d when no PIN is configured)
CarriesSignal(m, d) ==
    /\ StartsWithAlert(m)
    /\ AfterAlert(m) = <<Doc(d)>>
    /\ d.t = "obj"
    /\ IF WEBHOOK_PIN = <<>>
       THEN DOMAIN d.o # {}
       ELSE "PIN" \in DOMAIN d.o /\ d.o["PIN"] = Str(WEBHOOK_PIN)

CarriesWrongPin(m) ==
    /\ WEBHOOK_PIN # <<>>
    /\ StartsWithAlert(m)
    /\ \E d \in MailDocs :
          /\ AfterAlert(m) = <<Doc(d)>>
          /\ d.t = "obj"
          /\ DOMAIN d.o # {}
          /\ ("PIN" \in DOMAIN d.o => d.o["PIN"] # Str(WEBHOOK_PIN))

\* the message handled last was fetched
FetchedLast == reader.e_id # 0 /\ reader.last \notin {"skipped", "fetch_raised"}

\* C11 as claimed: with a PIN configured, a message whose payload carries a
\* different PIN is, once handled, not passed to process_signal and is marked
\* read.
C11_MismatchMarkedRead ==
    (FetchedLast /\ CarriesWrongPin(mailbox[reader.e_id]))
       => /\ reader.passed[reader.e_id] = 0
          /\ mailbox[reader.e_id].seen

\* C11 as amended: with a PIN configured, a message whose payload carries a
\* different PIN (or none) is never passed to process_signal and is never
\* marked read: handling it ends at the PIN check, in every poll cycle.
C11_MismatchLeftUnread ==
    /\ \A i \in DOMAIN mailbox :
          CarriesWrongPin(mailbox[i]) => reader.passed[i] = 0 /\ ~mailbox[i].seen
    /\ (FetchedLast /\ CarriesWrongPin(mailbox[reader.e_id]))
          => reader.last = "bad_pin" /\ reader.pc # "store" /\ reader.log = NotCalled

\* the second poll cycle has fetched the wrong-PIN alert again and has again
\* stopped at the PIN check
C11_Witness ==
    /\ WEBHOOK_PIN = pin1234
    /\ reader.cycle = 2
    /\ reader.e_id = 1
    /\ mailbox[1].subject =
          <<Marker, Space, Doc(SignalDoc(binance, Str(<<"0",".","0","1">>), Str(<<"0","0","0","0">>)))>>
    /\ reader.last = "bad_pin"
    /\ ~mailbox[1].seen

\* the subject starts with the marker and what follows is not one JSON document
ParseFails(m) ==
    /\ StartsWithAlert(m)
    /\ ~(Len(AfterAlert(m)) = 1 /\ AfterAlert(m)[1].tok = "doc")

\* C12: a message whose subject starts with "Alert:" but whose remainder fails
\* to parse as JSON is never passed to process_signal and is never marked
\* read, and every poll cycle whose search succeeds lists it again.
C12_ParseFailureLeftUnread ==
    /\ [](\A i \in DOMAIN mailbox :
             ParseFails(mailbox[i]) =>
                /\ reader.passed[i] = 0
                /\ ~mailbox[i].seen
                /\ (FetchedLast /\ reader.e_id = i) => reader.last = "ignored")
    /\ [][\A i \in DOMAIN mailbox :
             (ParseFails(mailbox[i]) /\ reader.pc = "sleep" /\ reader'.pc = "loop")
                => \E k \in DOMAIN reader'.ids : reader'.ids[k] = i]_vars

\* the second poll cycle has fetched the alert whose JSON is followed by text
\* and has again left it unread
C12_Witness ==
    /\ reader.cycle = 2
    /\ reader.e_id = 1
    /\ mailbox[1].subject = <<Marker, Doc(GoodDoc), Text>>
    /\ reader.last = "ignored"
    /\ ~mailbox[1].seen
    /\ reader.passed[1] = 0

----------------------------------------------------------------------------
(* Specification of the read operations of bot_logic *)

\* A position with the figures the summary uses
RichPos(symbol, side, contracts, notional, marginRatio, unrealizedPnl) ==
    [symbol |-> symbol, side |-> side, contracts |-> contracts,
     notional |-> notional, marginRatio |-> marginRatio, unrealizedPnl |-> unrealizedPnl]

\* an open long with a margin ratio and a gain, an open short without a margin
\* ratio and with a loss, a position the exchange lists as flat, and a second
\* open long
ReadPositions ==
    { RichPos("BTC/USDT", "long", 1, 3, <<2>>, 1),
      RichPos("ETH/USDT", "short", 2, 5, <<>>, -2),
      RichPos("BTC/USDT", "long", 0, 7, <<3>>, 4),
      RichPos("ETH/USDT", "long", 1, 2, <<1>>, 6) }

ReadAccounts(registry) ==
    UNION { {[e \in ExchangeNames |-> IF e = bybit THEN a ELSE b] :
                a \in [1..k[bybit] -> ReadPositions],
                b \in [1..k[binance] -> ReadPositions]} : k \in Splits(registry) }

ReadInit ==
    /\ WEBHOOK_PIN = <<>>
    /\ sh_exchanges = {}
    /\ startup = Started
    /\ WebOff
    /\ MailOff
    /\ bl_exchanges \in SUBSET ExchangeNames
    /\ account \in ReadAccounts(bl_exchanges)
    /\ frame = [w \in Workers |-> IdleFrame]

ReadNext ==
    \/ call_get_positions(1)
    \/ call_get_pending_orders(1)
    \/ call_calculate_summary_stats(1)
    \/ fetch_positions(1)
    \/ fetch_open_orders(1)
    \/ fetch_balance(1)
    \/ respond(1)

SpecRead == ReadInit /\ [][ReadNext]_vars

----------------------------------------------------------------------------
(* Properties of the read operations *)

\* worker 1 has finished a call of the read function `op`
ReadDone(op) == frame[1].op = op /\ frame[1].pc = "done"

\* the fetch calls of kind `call` that worker 1 made on exchange e
ReadsOf(call, e) ==
    SelectSeq(frame[1].reads, LAMBDA r : r.call = call /\ r.ex = e)

\* the call `call` on exchange e returned (it was made and did not raise)
Answered(call, e) == ReadsOf(call, e) # <<>> /\ ReadsOf(call, e)[1].ok

\* the positions with contracts > 0 that exchange e reports
OpenOn(e) == SelectSeq(account[e], LAMBDA p : p.contracts > 0)

\* list holds exactly the open positions of exchange e, in the order reported
ListsOpenOn(list, e) ==
    /\ Len(list) = Len(OpenOn(e))
    /\ \A i \in DOMAIN list :
          /\ list[i].symbol = OpenOn(e)[i].symbol
          /\ list[i].side = OpenOn(e)[i].side
          /\ list[i].contracts = OpenOn(e)[i].contracts
          /\ list[i].exchange = e

C14_EntryForEveryExchange ==
    ReadDone("get_pending_orders") =>
       /\ DOMAIN frame[1].pending = bl_exchanges
       /\ \A e \in bl_exchanges :
             /\ Answered("fetch_open_orders", e) =>
                   frame[1].pending[e] = ReadsOf("fetch_open_orders", e)[1].reply
             /\ ~Answered("fetch_open_orders", e) => frame[1].pending[e] = <<>>

RECURSIVE SumSeq(_)
SumSeq(s) == IF s = <<>> THEN 0 ELSE Head(s) + SumSeq(Tail(s))

RECURSIVE SumOver(_, _)
SumOver(f, S) ==
    IF S = {} THEN 0
    ELSE LET x == CHOOSE x \in S : TRUE IN f[x] + SumOver(f, S \ {x})

\* the USDT total exchange e answered to fetch_balance (0 when the balance has
\* no USDT entry)
BalanceOf(e) ==
    LET reply == ReadsOf("fetch_balance", e)[1].reply
    IN  IF reply = <<>> THEN 0 ELSE reply[1]

\* the unrealized PnL of the open positions of exchange e
PnlOf(e) == SumSeq([i \in DOMAIN OpenOn(e) |-> OpenOn(e)[i].unrealizedPnl])

\* notional times margin ratio, over the open positions of exchange e that
\* report a margin ratio
MarginOf(e) ==
    SumSeq([i \in DOMAIN OpenOn(e) |->
               IF OpenOn(e)[i].marginRatio = <<>> THEN 0
               ELSE OpenOn(e)[i].notional * OpenOn(e)[i].marginRatio[1]])

BalanceFetched   == {e \in bl_exchanges : Answered("fetch_balance", e)}
PositionsFetched == {e \in bl_exchanges : Answered("fetch_positions", e)}
BothFetched      == BalanceFetched \cap PositionsFetched

C16_MarginUsed ==
    ReadDone("calculate_summary_stats") =>
       frame[1].stats.margin_used = SumOver([e \in bl_exchanges |-> MarginOf(e)], BothFetched)

\* C17: when every fetch succeeds, portfolio_value is the sum over the
\* configured exchanges of the balance's USDT total (0 without a USDT entry),
\* total_pnl is the sum of the unrealized PnL of all open positions, and the
\* balance and the positions of each exchange were fetched exactly once.
C17_SummaryTotals ==
    (ReadDone("calculate_summary_stats") /\ BothFetched = bl_exchanges) =>
       /\ frame[1].stats.portfolio_value = SumOver([e \in bl_exchanges |-> BalanceOf(e)], bl_exchanges)
       /\ frame[1].stats.total_pnl = SumOver([e \in bl_exchanges |-> PnlOf(e)], bl_exchanges)
       /\ \A e \in bl_exchanges :
             /\ Len(ReadsOf("fetch_balance", e)) = 1
             /\ Len(ReadsOf("fetch_positions", e)) = 1
       /\ Len(frame[1].reads) = 2 * Cardinality(bl_exchanges)

\* bybit holds two open positions and a balance without a USDT entry, binance
\* holds none and a USDT total of 8
C17_Witness ==
    /\ ReadDone("calculate_summary_stats")
    /\ bl_exchanges = {bybit, binance}
    /\ BothFetched = bl_exchanges
    /\ Len(OpenOn(bybit)) = 2
    /\ ReadsOf("fetch_balance", bybit)[1].reply = <<>>
    /\ ReadsOf("fetch_balance", binance)[1].reply = <<8>>
    /\ frame[1].stats.portfolio_value = 8
    /\ frame[1].stats.total_pnl = 7

----------------------------------------------------------------------------
(* Properties of signal validation *)

\* the payload holds every required field and its SIDE is a string that,
\* lower-cased, is neither "buy" nor "sell"
BadSide ==
    /\ MissingRequired = {}
    /\ Field("SIDE").t = "str"
    /\ Lower(Field("SIDE").s) \notin {buy, sell}

\* C18 as claimed: a payload with every required field whose SIDE is neither
\* buy nor sell is rejected as an invalid side, whatever the other fields
\* hold, and no exchange call is made.
C18_InvalidSideAlways ==
    \A w \in Workers :
        (Called(w) /\ ObjectRequest /\ BadSide)
        => /\ signal[w].msg = "invalid_side"
           /\ signal[w].calls = <<>>

\* C18 as amended: a payload with every required field whose SIDE is neither
\* buy nor sell never leads to an exchange call; it is rejected as an invalid
\* side when EXCHANGE and ORDER_TYPE are strings and QUANTITY parses as a
\* number, and otherwise for that earlier defect (invalid quantity, or the
\* exception raised on a non-string field).
C18_InvalidSide ==
    \A w \in Workers :
        (Called(w) /\ ObjectRequest /\ BadSide)
        => /\ signal[w].calls = <<>>
           /\ IF /\ Field("EXCHANGE").t = "str"
                 /\ Field("ORDER_TYPE").t = "str"
                 /\ ToFloat(Field("QUANTITY")).ok
              THEN signal[w].msg = "invalid_side"
              ELSE signal[w].msg \in {"invalid_quantity", "exception"}

\* an otherwise valid market order for a configured exchange with SIDE "hold"
C18_Witness ==
    \E w \in Workers :
        /\ Called(w) /\ ObjectRequest
        /\ Payload = MkObj(Str(binance), Str(BTCUSDT), Str(<<"h","o","l","d">>), Str(market),
                           Str(<<"0",".","0","1">>), Absent, Absent)
        /\ binance \in sh_exchanges
        /\ signal[w].msg = "invalid_side"
        /\ signal[w].calls = <<>>

\* the payload passes the checks of lines 79-100: every required field is
\* there, EXCHANGE, SIDE and ORDER_TYPE are strings, QUANTITY parses as a
\* number and SIDE is buy or sell
PassesSideCheck ==
    /\ MissingRequired = {}
    /\ \A k \in {"EXCHANGE", "SIDE", "ORDER_TYPE"} : Field(k).t = "str"
    /\ ToFloat(Field("QUANTITY")).ok
    /\ Lower(Field("SIDE").s) \in {buy, sell}

BadOrderType ==
    /\ MissingRequired = {}
    /\ Field("ORDER_TYPE").t = "str"
    /\ Lower(Field("ORDER_TYPE").s) \notin {market, limit}

\* C20 as claimed: a payload whose ORDER_TYPE is neither market nor limit is
\* rejected as an unsupported order type, with no exchange call, whether or
\* not the named exchange is configured.
C20_UnsupportedTypeAlways ==
    \A w \in Workers :
        (Called(w) /\ ObjectRequest /\ BadOrderType)
        => /\ signal[w].msg = "unsupported_order_type"
           /\ signal[w].calls = <<>>

\* C20 as amended: a payload whose ORDER_TYPE is neither market nor limit
\* never leads to an exchange call; when it passes the field, quantity and
\* side checks it is rejected as an unsupported order type if the named
\* exchange is configured, and as naming an exchange that is not configured
\* otherwise.
C20_UnsupportedType ==
    \A w \in Workers :
        (Called(w) /\ ObjectRequest /\ BadOrderType)
        => /\ signal[w].calls = <<>>
           /\ PassesSideCheck =>
                 signal[w].msg = IF Lower(Field("EXCHANGE").s) \in sh_exchanges
                                 THEN "unsupported_order_type"
                                 ELSE "exchange_unavailable"

\* an otherwise valid buy on binance, which is configured, with ORDER_TYPE "stop"
C20_Witness ==
    \E w \in Workers :
        /\ Called(w) /\ ObjectRequest
        /\ Payload = MkObj(Str(binance), Str(BTCUSDT), Str(buy), Str(<<"s","t","o","p">>),
                           Str(<<"0",".","0","1">>), Absent, Absent)
        /\ binance \in sh_exchanges
        /\ signal[w].msg = "unsupported_order_type"
        /\ signal[w].calls = <<>>

\* QUANTITY parses as a number greater than 0
PositiveQuantity ==
    /\ Field("QUANTITY") # Absent
    /\ ToFloat(Field("QUANTITY")).ok
    /\ ToFloat(Field("QUANTITY")).v.k = "fin"
    /\ ToFloat(Field("QUANTITY")).v.m > 0

\* C21: process_signal submits an order only when QUANTITY parses as a number
\* greater than 0; an otherwise valid market order for a configured exchange
\* whose QUANTITY is non-numeric, zero or negative is rejected as invalid
\* quantity and causes no exchange call.
C21_PositiveQuantityOnly ==
    \A w \in Workers :
        (Called(w) /\ ObjectRequest)
        => /\ signal[w].calls # <<>> => PositiveQuantity
           /\ (/\ MissingRequired = {}
               /\ \A k \in {"EXCHANGE", "SIDE", "ORDER_TYPE"} : Field(k).t = "str"
               /\ Lower(Field("EXCHANGE").s) \in sh_exchanges
               /\ Lower(Field("SIDE").s) \in {buy, sell}
               /\ Lower(Field("ORDER_TYPE").s) = market
               /\ Field("QUANTITY").t = "str"
               /\ ~PositiveQuantity)
              => signal[w].msg = "invalid_quantity" /\ signal[w].calls = <<>>

----------------------------------------------------------------------------
(* Specification of the order operations of bot_logic *)

\* the arguments the operations are called with: configured and unknown
\* exchanges, both order types in lower case, a type in upper case and an
\* unsupported one, with and without a price
OrderTypes  == {"market", "limit", "LIMIT", "stop"}
OrderPrices == {0, 3000}
OrderSides  == {"buy", "sell"}
OrderIds    == {"order-1"}

OrderInit ==
    /\ WEBHOOK_PIN = <<>>
    /\ sh_exchanges = {}
    /\ startup = Started
    /\ WebOff
    /\ MailOff
    /\ bl_exchanges \in SUBSET ExchangeNames
    /\ account \in Accounts(bl_exchanges)
    /\ frame = [w \in Workers |-> IdleFrame]

OrderNext ==
    \/ \E ex \in RequestedExchanges, side \in OrderSides, typ \in OrderTypes,
          price \in OrderPrices :
          call_execute_order(1, ex, "BTC/USDT", side, typ, 1, price)
    \/ \E ex \in RequestedExchanges, id \in OrderIds :
          call_cancel_order(1, ex, id, "BTC/USDT")
    \/ \E ex \in RequestedExchanges, sym \in RequestedSymbols :
          call_close_position(1, ex, sym)
    \/ place_order(1)
    \/ exchange_cancel_order(1)
    \/ fetch_positions(1)
    \/ create_market_order(1)
    \/ respond(1)

SpecOrder == OrderInit /\ [][OrderNext]_vars

----------------------------------------------------------------------------
(* Properties of the order operations *)

OrderOps == {"execute_order", "close_position", "cancel_order"}

----------------------------------------------------------------------------
(* The mailbox path under fair scheduling: the reader thread keeps running,  *)
(* every IMAP and exchange call returns or raises, and the sleep returns     *)

\* a PIN is configured and every message is one of LaterSubjects
MailLiveInit ==
    /\ MailInit
    /\ WEBHOOK_PIN = pin1234
    /\ \A i \in DOMAIN mailbox : mailbox[i].subject \in LaterSubjects

\* weak fairness of examine_message, with its enabling condition (lines
\* 111: the for loop has a message left) written out
ExamineFair ==
    \/ []<>~(reader.pc = "loop" /\ reader.ids # <<>>)
    \/ []<><<examine_message>>_vars

\* run_email_reader, lines 161-164: the thread keeps running, every call it
\* makes returns or raises, and the sleep returns
SpecMailLive ==
    /\ MailLiveInit /\ [][MailNext]_vars
    /\ WF_vars(begin_check_inbox)
    /\ ExamineFair
    /\ WF_vars(mark_seen)
    /\ WF_vars(end_check_inbox)

\* C23: whatever fails in a poll cycle (connect, login, search, fetch, store,
\* the exchange call), the cycle ends and run_email_reader starts the next
\* one: every poll cycle up to the last one modelled is eventually started,
\* and every cycle that is under way eventually returns to the sleep.
C23_LoopSurvivesFailures ==
    /\ \A n \in 0..(MaxCycles - 1) : (reader.cycle = n) ~> (reader.cycle = n + 1)
    /\ (reader.pc \in {"loop", "store"}) ~> (reader.pc = "sleep")

\* the second poll cycle is under way although in the first one the exchange
\* refused the order and mail.store raised
C23_Witness ==
    /\ reader.cycle = 2
    /\ reader.pc = "loop"
    /\ reader.ids # <<>>
    /\ reader.last = "store_raised"
    /\ reader.log.msg = "exception"
    /\ reader.log.calls # <<>>

----------------------------------------------------------------------------
(* process_signal as a total function *)

\* what process_signal logs when it returns
SignalReturns ==
    {"missing_field", "invalid_quantity", "invalid_side", "missing_price",
     "invalid_price", "exchange_unavailable", "unsupported_order_type",
     "placed", "exception"}

\* C24: process_signal returns to its caller for every payload and every
\* exchange behaviour: whenever the webhook worker called it, the call ended
\* in one of the logged outcomes (an exception is caught and logged, never
\* propagated) and the worker went on to answer 200.
C24_ProcessSignalTotal ==
    \A w \in Workers :
        Called(w) => /\ signal[w].msg \in SignalReturns
                     /\ response[w] = Response(200, "ok")

\* a payload whose EXCHANGE is null: .lower() raises AttributeError, which is
\* caught and logged
C24_Witness ==
    \E w \in Workers :
        /\ Called(w) /\ ObjectRequest
        /\ Field("EXCHANGE") = Null
        /\ MissingRequired = {}
        /\ signal[w].msg = "exception"
        /\ signal[w].detail = "AttributeError"
        /\ response[w] = Response(200, "ok")

----------------------------------------------------------------------------
(* Start-up: the module-level code that fills the two registries *)

\* startup.sh and startup.bl are the position of the import of signal_handler
\* and of bot_logic:
\*   "init_bybit", "init_binance"  before the if block of that exchange
\*   "imported"                    the module body has run to its end
\*   "raised"                      the module body raised: the import failed
\* keys holds the exchanges whose API key and secret are configured, demo is
\* USE_DEMO_TRADING, sh_failed and bl_failed the exchanges whose client could
\* not be set up (the constructor, or enable_demo_trading, raised).
Importing(keys, demo) ==
    [sh |-> "init_bybit", bl |-> "init_bybit", keys |-> keys, demo |-> demo,
     sh_failed |-> {}, bl_failed |-> {}]

\* the exchange of the if block at position pc, and the position after it
BlockOf(pc)    == IF pc = "init_bybit" THEN bybit ELSE binance
AfterBlock(pc) == IF pc = "init_bybit" THEN "init_binance" ELSE "imported"

\* setting up the client of exchange e: `ok` FALSE is ccxt raising in the
\* constructor; for binance in demo mode, `demo_ok` FALSE is
\* enable_demo_trading raising
ClientSetUp(e, demo, ok, demo_ok) ==
    ok /\ (e = binance /\ demo => demo_ok)

\* signal_handler.py, lines 48-71: one if block; nothing catches an exception
signal_handler_init ==
    /\ startup.sh \in {"init_bybit", "init_binance"}
    /\ LET e == BlockOf(startup.sh) IN
       IF e \notin startup.keys
       THEN /\ startup' = [startup EXCEPT !.sh = AfterBlock(@)]
            /\ UNCHANGED sh_exchanges
       ELSE \E ok \in BOOLEAN, demo_ok \in BOOLEAN :
               IF ClientSetUp(e, startup.demo, ok, demo_ok)
               THEN /\ sh_exchanges' = sh_exchanges \cup {e}
                    /\ startup' = [startup EXCEPT !.sh = AfterBlock(@)]
               ELSE /\ startup' = [startup EXCEPT !.sh = "raised",
                                                  !.sh_failed = @ \cup {e}]
                    /\ UNCHANGED sh_exchanges
    /\ UNCHANGED <<WEBHOOK_PIN, webVars, dashVars, mailVars>>

\* bot_logic.py, lines 44-80: one if block; its try/except logs the exception
\* and the module body goes on
bot_logic_init ==
    /\ startup.bl \in {"init_bybit", "init_binance"}
    /\ LET e == BlockOf(startup.bl) IN
       IF e \notin startup.keys
       THEN /\ startup' = [startup EXCEPT !.bl = AfterBlock(@)]
            /\ UNCHANGED bl_exchanges
       ELSE \E ok \in BOOLEAN, demo_ok \in BOOLEAN :
               IF ClientSetUp(e, startup.demo, ok, demo_ok)
               THEN /\ bl_exchanges' = bl_exchanges \cup {e}
                    /\ startup' = [startup EXCEPT !.bl = AfterBlock(@)]
               ELSE /\ startup' = [startup EXCEPT !.bl = AfterBlock(@),
                                                  !.bl_failed = @ \cup {e}]
                    /\ UNCHANGED bl_exchanges
    /\ UNCHANGED <<WEBHOOK_PIN, sh_exchanges, account, frame, webVars, mailVars>>

StartInit ==
    /\ WEBHOOK_PIN \in Configs
    /\ sh_exchanges = {}
    /\ WebOff
    /\ DashOff
    /\ MailOff
    /\ \E keys \in SUBSET ExchangeNames, demo \in BOOLEAN :
          startup = Importing(keys, demo)

StartNext ==
    \/ signal_handler_init
    \/ bot_logic_init

SpecStart == StartInit /\ [][StartNext]_vars

\* C25: an exchange whose client cannot be set up at start-up is absent from
\* the registry and the start-up goes on: neither import fails, each registry
\* ends up holding the configured exchanges whose client could be set up, and
\* when the same clients fail in both modules the two registries hold the same
\* names.
C25_FailedClientAbsent ==
    /\ startup.sh # "raised"
    /\ startup.bl # "raised"
    /\ startup.sh = "imported" =>
          sh_exchanges = startup.keys \ startup.sh_failed
    /\ startup.bl = "imported" =>
          bl_exchanges = startup.keys \ startup.bl_failed
    /\ (/\ startup.sh = "imported" /\ startup.bl = "imported"
        /\ startup.sh_failed = startup.bl_failed) =>
          sh_exchanges = bl_exchanges

----------------------------------------------------------------------------
(* Specification of the core: a webhook worker handling signals while a     *)
(* dashboard worker runs every operation of bot_logic                       *)

\* an open long with a margin ratio
CorePosition == RichPos("BTC/USDT", "long", 1, 3, <<2>>, 1)

\* every configured exchange reports no position or that one
CoreAccounts(registry) ==
    { a \in [ExchangeNames -> {<<>>, <<CorePosition>>}] :
         \A e \in ExchangeNames \ registry : a[e] = <<>> }

\* the signals sent: for a configured exchange, for one in another letter
\* case and for one the code does not know; valid ones and ones with an
\* invalid side, a non-numeric quantity or a limit order without price
CoreRequests ==
    { Req("json", Obj(MkObj(ex, Str(BTCUSDT), side, typ, qty, Absent, Absent))) :
        ex   \in {Str(binance), Str(<<"B","y","b","i","t">>), Str(kraken)},
        side \in {Str(buy), Str(<<"h","o","l","d">>)},
        typ  \in {Str(market), Str(<<"L","i","m","i","t">>)},
        qty  \in {Str(<<"0",".","0","1">>), Str(<<"a","b","c">>)} }

\* a client sends one of these signals
ArriveSignal ==
    /\ request = NoRequest
    /\ request' \in CoreRequests
    /\ UNCHANGED <<startup, WEBHOOK_PIN, sh_exchanges, wpc, response, signal, dashVars, mailVars>>

\* no PIN; both modules were imported under the same configuration and every
\* client could be set up
CoreInit ==
    /\ WEBHOOK_PIN = <<>>
    /\ startup = Started
    /\ WebOff
    /\ MailOff
    /\ bl_exchanges \in SUBSET ExchangeNames
    /\ sh_exchanges = bl_exchanges
    /\ account \in CoreAccounts(bl_exchanges)
    /\ frame = [w \in Workers |-> IdleFrame]

CoreNext ==
    \/ ArriveSignal
    \/ trade_signal(2)
    \/ call_get_positions(1)
    \/ call_get_pending_orders(1)
    \/ call_calculate_summary_stats(1)
    \/ \E ex \in RequestedExchanges, typ \in {"market", "limit"}, price \in OrderPrices :
          call_execute_order(1, ex, "BTC/USDT", "buy", typ, 1, price)
    \/ \E ex \in RequestedExchanges, id \in OrderIds :
          call_cancel_order(1, ex, id, "BTC/USDT")
    \/ \E ex \in RequestedExchanges, sym \in RequestedSymbols :
          call_close_position(1, ex, sym)
    \/ call_close_all_positions(1)
    \/ fetch_positions(1)
    \/ fetch_open_orders(1)
    \/ fetch_balance(1)
    \/ place_order(1)
    \/ exchange_cancel_order(1)
    \/ create_market_order(1)
    \/ respond(1)

SpecCore == CoreInit /\ [][CoreNext]_vars

----------------------------------------------------------------------------
(* Properties of the registry *)

\* the signal names an exchange that signal_handler.exchanges does not hold
NamesUnknown ==
    /\ Field("EXCHANGE").t = "str"
    /\ Lower(Field("EXCHANGE").s) \notin sh_exchanges

\* the payload passes the checks of lines 79-111, which precede the lookup
PassesPriceCheck ==
    /\ PassesSideCheck
    /\ Lower(Field("ORDER_TYPE").s) = limit =>
          Field("PRICE") # Absent /\ ToFloat(Field("PRICE")).ok

\* worker w has finished an order operation that named an exchange
\* bot_logic.exchanges does not hold
UnknownDone(w) ==
    /\ frame[w].op \in OrderOps /\ frame[w].pc = "done"
    /\ frame[w].target.ex \notin bl_exchanges

\* the operation of worker w called no exchange
NoExchangeCall(w) ==
    /\ frame[w].orders = <<>>
    /\ frame[w].reads = <<>>
    /\ frame[w].fetched = <<>>

\* C26 as claimed: an operation naming an exchange that is not in the
\* registry calls no exchange; process_signal reports the exchange as
\* unavailable, and execute_order, close_position and cancel_order return an
\* error result.
C26_UnavailableAlways ==
    /\ \A w \in Workers :
          (Called(w) /\ ObjectRequest /\ NamesUnknown)
          => signal[w].msg = "exchange_unavailable" /\ signal[w].calls = <<>>
    /\ \A w \in Workers :
          UnknownDone(w) => frame[w].ret.status = "error" /\ NoExchangeCall(w)

\* C26 as amended: an operation naming an exchange that is not in the
\* registry calls no exchange and raises nothing; execute_order,
\* close_position and cancel_order return an error result, and process_signal
\* returns having reported the exchange as unavailable when the payload
\* passes the field, quantity, side and price checks that precede the lookup,
\* and the first of these defects otherwise.
C26_Unavailable ==
    /\ \A w \in Workers :
          (Called(w) /\ ObjectRequest /\ NamesUnknown)
          => /\ signal[w].calls = <<>>
             /\ IF PassesPriceCheck
                THEN signal[w].msg = "exchange_unavailable"
                ELSE signal[w].msg \in {"missing_field", "invalid_quantity", "invalid_side",
                                        "missing_price", "invalid_price", "exception"}
    /\ \A w \in Workers :
          UnknownDone(w) => /\ frame[w].ret.status = "error"
                            /\ frame[w].ret.message # ""
                            /\ NoExchangeCall(w)

\* binance is configured; a valid market order for kraken was reported as
\* naming an unavailable exchange, and execute_order for kraken returned an
\* error
C26_Witness ==
    /\ bl_exchanges = {binance}
    /\ Called(2) /\ ObjectRequest
    /\ Field("EXCHANGE") = Str(kraken)
    /\ PassesPriceCheck
    /\ signal[2].msg = "exchange_unavailable"
    /\ frame[1].op = "execute_order" /\ frame[1].pc = "done"
    /\ frame[1].target.ex = kraken
    /\ frame[1].ret = Error("exchange not found")

\* C27: no step of the core (process_signal, get_positions,
\* get_pending_orders, execute_order, close_position, close_all_positions,
\* cancel_order, calculate_summary_stats, and the exchange calls they make)
\* adds, removes or replaces an entry of either registry.
C27_RegistryImmutable ==
    [][sh_exchanges' = sh_exchanges /\ bl_exchanges' = bl_exchanges]_vars

\* both registries hold binance only, after a signal for binance was placed
\* and close_position on binance failed at the exchange
C27_Witness ==
    /\ sh_exchanges = {binance} /\ bl_exchanges = {binance}
    /\ Called(2) /\ signal[2].msg = "placed"
    /\ frame[1].op = "close_position" /\ frame[1].pc = "done"
    /\ frame[1].orders # <<>>
    /\ frame[1].ret = Error("exchange error")

----------------------------------------------------------------------------
(* Letter case of EXCHANGE, SIDE and ORDER_TYPE *)

\* the lower-case spelling of the mixed-case values the clients send
Spelled(v) ==
    CASE v = Str(<<"B","y","b","i","t">>) -> Str(bybit)
      [] v = Str(<<"S","E","L","L">>)     -> Str(sell)
      [] v = Str(<<"L","i","m","i","t">>) -> Str(limit)
      [] OTHER                            -> v

\* the payload with EXCHANGE, SIDE and ORDER_TYPE spelled in lower case
LowerCased(o) ==
    [k \in DOMAIN o |-> IF k \in {"EXCHANGE", "SIDE", "ORDER_TYPE"}
                        THEN Spelled(o[k]) ELSE o[k]]

\* C28: the outcome of process_signal for a payload is the outcome for the
\* same payload with EXCHANGE, SIDE and ORDER_TYPE spelled in lower case (so
\* payloads that differ only in the letter case of these fields have the same
\* outcome: the same rejection, or the same order on the same exchange), and
\* the order carries SYMBOL as the payload holds it.
C28_CaseInsensitive ==
    \A w \in Workers :
        (Called(w) /\ ObjectRequest)
        => /\ \E accept \in BOOLEAN :
                 signal[w] = process_signal(Obj(LowerCased(Payload)), sh_exchanges, accept)
           /\ \A i \in DOMAIN signal[w].calls :
                 signal[w].calls[i].symbol = Field("SYMBOL")

\* a limit order sent as EXCHANGE "Bybit", SIDE "SELL", ORDER_TYPE "Limit" was
\* placed on bybit as a limit sell for BTC/USDT
C28_Witness ==
    \E w \in Workers :
        /\ Called(w) /\ ObjectRequest
        /\ Field("EXCHANGE") = Str(<<"B","y","b","i","t">>)
        /\ Field("SIDE") = Str(<<"S","E","L","L">>)
        /\ Field("ORDER_TYPE") = Str(<<"L","i","m","i","t">>)
        /\ signal[w].msg = "placed"
        /\ Len(signal[w].calls) = 1
        /\ signal[w].calls[1].ex = bybit
        /\ signal[w].calls[1].side = sell
        /\ signal[w].calls[1].type = limit
        /\ signal[w].calls[1].symbol = Str(BTCUSDT)

----------------------------------------------------------------------------
(* Order of the steps of the mailbox path *)

\* this step marks message i read
MarksSeen(i) == mailbox'[i].seen /\ ~mailbox[i].seen

\* this step takes up the next message of the cycle (fetch, decode, validate
\* and, for a signal, process_signal)
TakesUpMessage ==
    \/ reader'.passed # reader.passed
    \/ /\ reader'.ids # reader.ids
       /\ reader'.last \notin {"stored", "store_raised"}
       /\ reader'.cycle = reader.cycle

\* C29: a message is marked read only in the step that follows the return of
\* process_signal for that very message; the next message is taken up only
\* when the previous one is finished (the loop is at its head, not between
\* process_signal and mail.store); and a poll cycle starts only when the
\* previous one has ended (the reader sleeps, no message of it is left).
C29_Sequential ==
    [][ /\ \A i \in DOMAIN mailbox :
              MarksSeen(i) => /\ reader.pc = "store"
                              /\ reader.e_id = i
                              /\ reader.last = "signal"
                              /\ reader.log # NotCalled
        /\ TakesUpMessage => reader.pc = "loop"
        /\ reader'.cycle # reader.cycle => reader.pc = "sleep" /\ reader.ids = <<>>
      ]_vars

\* the second cycle has taken up the second message after the first cycle
\* passed the first one to process_signal once and marked it read
C29_Witness ==
    /\ reader.cycle = 2
    /\ Len(mailbox) >= 2
    /\ mailbox[1].seen
    /\ reader.passed[1] = 1
    /\ reader.e_id = 2
    /\ reader.pc = "store"

\* C30: over all poll cycles no message of the mailbox is passed to
\* process_signal more than once.
C30_AtMostOnce ==
    \A i \in DOMAIN reader.passed : reader.passed[i] <= 1

\* C30 as amended: a message is passed to process_signal at most once in a
\* poll cycle, and never again once it has been marked read; a message whose
\* marking failed stays unread and is passed again in a later cycle.
C30_OncePerCycleUntilMarked ==
    /\ [](\A i \in DOMAIN reader.passed : reader.passed[i] <= reader.cycle)
    /\ [][\A i \in DOMAIN mailbox :
             mailbox[i].seen => reader'.passed[i] = reader.passed[i]]_vars

\* the order of the first message was placed in the first cycle, mail.store
\* raised, and the second cycle has placed it again
C30_Witness ==
    /\ reader.cycle = 2
    /\ reader.passed[1] = 2
    /\ ~mailbox[1].seen
    /\ reader.e_id = 1
    /\ reader.pc = "store"
    /\ reader.log.msg = "placed"
    /\ reader.log.calls # <<>>

----------------------------------------------------------------------------
(* Marking of the messages that were passed to process_signal *)

\* message i was passed to process_signal and the reader has left its
\* mail.store behind
HandledSignal(i) ==
    /\ reader.passed[i] >= 1
    /\ ~(reader.pc = "store" /\ reader.e_id = i)

\* C31 as claimed: a message that passed the marker, parse and PIN checks is
\* marked read whatever process_signal did with it, and is not passed to
\* process_signal again by a later poll cycle.
C31_AlwaysMarkedRead ==
    \A i \in DOMAIN mailbox :
        HandledSignal(i) => mailbox[i].seen /\ reader.passed[i] = 1

\* C31 as amended: when process_signal has returned for a message the reader
\* is at mail.store whatever process_signal did with the signal, and the step
\* that follows marks the message read unless mail.store raises; a message
\* whose marking succeeded is read and is not passed again, one whose marking
\* failed stays unread (and is retried by the next cycle).
C31_MarkedUnlessStoreFails ==
    /\ [](reader.last = "signal" <=> reader.pc = "store")
    /\ [](\A i \in DOMAIN mailbox :
             (reader.e_id = i /\ reader.last = "stored") => mailbox[i].seen)
    /\ [][\A i \in DOMAIN mailbox :
             /\ (reader.pc = "store" /\ reader.e_id = i) =>
                   \/ mailbox'[i].seen /\ reader'.last = "stored"
                   \/ ~mailbox'[i].seen /\ reader'.last = "store_raised"
             /\ mailbox[i].seen => /\ mailbox'[i].seen
                                   /\ reader'.passed[i] = reader.passed[i]]_vars

\* the first message named an exchange that is not configured: process_signal
\* placed no order and the message was marked read
C31_Witness ==
    /\ reader.e_id = 1
    /\ reader.last = "stored"
    /\ reader.log.msg = "exchange_unavailable"
    /\ reader.passed[1] = 1
    /\ mailbox[1].seen

----------------------------------------------------------------------------
(* close_all_positions and positions that share exchange and symbol *)

\* the market order that offsets position p of a snapshot
OffsettingOrder(p) ==
    MarketOrderCall(p.exchange, p.symbol,
                    IF p.side \in {"long", "buy"} THEN "sell" ELSE "buy",
                    p.contracts)

\* no two positions of the snapshot are the same record
DistinctPositions(snapshot) ==
    \A j, k \in DOMAIN snapshot : j # k => snapshot[j] # snapshot[k]

\* C32: when close_all_positions has issued an order in each of its calls of
\* close_position, the orders are, position by position, the offsetting
\* orders of its snapshot (opposite side, the position's contracts), also
\* when one exchange reports a long and a short for the same symbol, and the
\* result map holds one entry per position.
C32_OffsetsEveryPosition ==
    \A w \in Workers :
        (/\ frame[w].op = "close_all_positions" /\ frame[w].pc = "done"
         /\ Len(frame[w].orders) = Len(frame[w].snapshot)
         /\ DistinctPositions(frame[w].snapshot))
        => /\ \A k \in DOMAIN frame[w].snapshot :
                 frame[w].orders[k] = OffsettingOrder(frame[w].snapshot[k])
           /\ Cardinality(DOMAIN frame[w].results) = Len(frame[w].snapshot)

----------------------------------------------------------------------------
(* Specification of close_position over every value of a position's side *)

\* long and short as ccxt reports them, buy and sell, a position without a
\* side and one with a side the code does not know
SideValues == {"long", "short", "buy", "sell", MissingSide, "both"}

SidePositions == {RawPos("BTC/USDT", side, 2) : side \in SideValues}

\* binance is configured and reports up to MaxPositions of these positions
SideInit ==
    /\ WEBHOOK_PIN = <<>>
    /\ sh_exchanges = {}
    /\ startup = Started
    /\ WebOff
    /\ MailOff
    /\ bl_exchanges = {binance}
    /\ \E k \in 0..MaxPositions, b \in [1..MaxPositions -> SidePositions] :
          account = [e \in ExchangeNames |-> IF e = binance THEN SubSeq(b, 1, k) ELSE <<>>]
    /\ frame = [w \in Workers |-> IdleFrame]

SideNext ==
    \/ \E ex \in RequestedExchanges, sym \in RequestedSymbols :
          call_close_position(1, ex, sym)
    \/ fetch_positions(1)
    \/ create_market_order(1)
    \/ respond(1)

SpecSide == SideInit /\ [][SideNext]_vars

\* worker w has finished a close_position that found a position and ordered
OrderedClose(w) ==
    /\ ClosedOne(w)
    /\ frame[w].match # NoMatch
    /\ frame[w].orders # <<>>

\* C33 as claimed: the order of close_position is a sell exactly when the
\* matched position's side is buy or long and a buy for every other side; a
\* buy order is therefore issued only for short or sell-side positions.
C33_BuyOnlyForShort ==
    \A w \in Workers :
        OrderedClose(w)
        => /\ frame[w].orders[1].side = "sell" <=> frame[w].match.side \in {"buy", "long"}
           /\ frame[w].orders[1].side = "buy" => frame[w].match.side \in {"short", "sell"}

\* C33 as amended: the order of close_position is a sell exactly when the
\* matched position's side is buy or long and a buy for every other side; a
\* buy order is therefore issued for short and sell-side positions and also
\* for positions whose side is missing ('N/A') or unrecognised.
C33_ClosingSide ==
    \A w \in Workers :
        OrderedClose(w)
        => /\ Len(frame[w].orders) = 1
           /\ frame[w].orders[1].side \in {"buy", "sell"}
           /\ frame[w].orders[1].side = "sell" <=> frame[w].match.side \in {"buy", "long"}
           /\ frame[w].match.side \in {"short", "sell", "N/A", "both"} =>
                 frame[w].orders[1].side = "buy"
           /\ frame[w].orders[1].amount = frame[w].match.contracts

\* binance reports one position without a side; close_position bought 2
C33_Witness ==
    /\ OrderedClose(1)
    /\ account[binance] = << RawPos("BTC/USDT", MissingSide, 2) >>
    /\ frame[1].match.side = "N/A"
    /\ frame[1].orders[1].side = "buy"
    /\ frame[1].orders[1].amount = 2

\* what can become of a message that the for loop has taken up
Outcomes == {"skipped", "fetch_raised", "raised", "ignored", "bad_pin", "stored", "store_raised"}

\* C34: within one poll cycle the list of unread messages that the search
\* returned loses a message only at its head and only when that message has
\* been examined, whatever became of it (fetch, decoding or PIN check raised,
\* mail.store raised, or no exception at all), and the cycle ends only when
\* the list is empty: every message the search returned is examined in that
\* cycle.
C34_EveryUnreadExamined ==
    /\ [](reader.pc = "sleep" => reader.ids = <<>>)
    /\ [](reader.pc = "store" => reader.ids # <<>> /\ reader.e_id = Head(reader.ids))
    /\ [][/\ (reader.pc = "sleep" /\ reader'.pc = "loop") =>
                reader'.ids = Unseen(mailbox, 1)
          /\ (reader.pc \in {"loop", "store"}) =>
                /\ reader'.pc \in {"loop", "store", "sleep"}
                /\ reader'.cycle = reader.cycle
                /\ reader'.pc = "sleep" => reader.ids = <<>>
                /\ reader'.ids # reader.ids =>
                      /\ reader'.ids = Tail(reader.ids)
                      /\ reader'.e_id = Head(reader.ids)
                      /\ reader'.last \in Outcomes
                /\ (reader.pc = "loop" /\ reader.ids # <<>>) =>
                      reader'.e_id = Head(reader.ids)]_vars

\* in the first cycle the subject of message 1 could not be decoded, or the
\* fetch raised, and message 2 was then passed to process_signal and marked
C34_Witness ==
    /\ reader.cycle = 1
    /\ Len(mailbox) = 2
    /\ ~QuopriDecode(mailbox[1].subject).ok
    /\ reader.passed[1] = 0
    /\ reader.e_id = 2
    /\ reader.last = "stored"
    /\ mailbox[2].seen

====
